---- MODULE Spec2Model ----
(***************************************************************************)
(* Verification model of mcp-analyzer.                                     *)
(*                                                                         *)
(* Six specifications share this module:                                   *)
(*   SynthSpec - the configuration synthesis of analyzeProject,            *)
(*               planProject and enhanceProject on top of                  *)
(*               discoverMCPServers (project-analyzer.ts,                  *)
(*               project-planner.ts, project-enhancer.ts,                  *)
(*               discovery-service.ts);                                    *)
(*   WalkSpec  - the two directory walkers, scanProjectDirectory           *)
(*               (utils/fs.ts) and scanProject/scanDir                     *)
(*               (project-analyzer.ts);                                    *)
(*   StatsSpec - the classifiers: analyzeTechStack                         *)
(*               (project-planner.ts), the file branch of scanDir          *)
(*               (project-analyzer.ts) and the detectors                   *)
(*               (utils/detectors.ts);                                     *)
(*   RunSpec   - one invocation through the MCP tool handler or the        *)
(*               command line, with the file system calls of the entry     *)
(*               point taken one at a time;                                *)
(*   RulesSpec - searchCursorRules, one request per technology             *)
(*               (discovery-service.ts);                                   *)
(*   LookupSpec - discoverMCPServers with its concurrent README            *)
(*               requests completing in any order                          *)
(*               (discovery-service.ts).                                   *)
(***************************************************************************)
EXTENDS Integers, Sequences, FiniteSets, TLC

VARIABLES
    \* ---- configuration synthesis ----
    mcpJson,            \* content of <project>/.cursor/mcp.json
    op,                 \* the entry point that ran last
    lookup,             \* how the discovery lookup of that call went
    existingConfig,     \* enhanceProject: the configuration loaded from disk
    discoveredServers,  \* what discoverMCPServers returned to the call
    newMcpConfig,       \* the configuration the call generated
    addedTools,         \* enhanceProject: findNewTools(existingConfig, newMcpConfig)
    result,             \* "ok" (success report) or "error" (Error ... message)
    message,            \* how the text returned by that call begins
    fsFailed,           \* the file-system call of that call that failed, or "none"
    \* ---- directory walk ----
    walker,             \* which walker runs: scanProjectDirectory or scanProject
    tree,               \* the family the project tree on disk is drawn from
    dirs,               \* the directories met so far, with what the walk did to each
    stack,              \* the active calls of the recursive walker, innermost last
    fileTypes,          \* stats.fileTypes
    languages,          \* stats.languages
    seen,               \* files processed so far in the whole walk
    wstate,             \* "start", "walking", "done" or "thrown"
    \* ---- classifiers ----
    mode,               \* which classifier runs, and whether it has returned
    description,        \* analyzeTechStack: the free text
    detected,           \* analyzeTechStack: the TechnologyStack it returned
    projectStats,       \* the ProjectStats scanDir or the detectors update
    ref,                \* stats of the same files, unusable manifests left out
    input,              \* the file scanDir met last, or the last detector call
    steps,              \* entries met or detector calls made so far
    cwd,                \* scanDir: the directory being read, as names below the root
    contains,           \* scanDir: the entries met so far, each with its directory
    \* ---- one invocation, from the request to the reply ----
    request,            \* the tool call or command line received
    invoked,            \* the entry point the handler called, or "none"
    runStack,           \* the stack the scan or the classifier gave that call
    pc,                 \* the step of the entry point to run next
    failures,           \* the file-system calls of that call that failed
    written,            \* the files that call wrote, in the order of the writes
    discoveryCalls,     \* the technology lists discoverMCPServers was called with
    servers,            \* what discoverMCPServers returned to generateMCPConfig
    mcpConfig,          \* the configuration generateMCPConfig returned
    returned,           \* how the text the entry point returned begins
    reply,              \* the handler's answer, or the exit of the command line
    \* ---- rule search ----
    techs,              \* searchCursorRules: the technologies it was given
    position,           \* the technologies looked up so far
    pages,              \* what each lookup so far answered
    rules,              \* the rules collected so far, then those returned
    searchState,        \* "searching" or "returned"
    \* ---- server discovery ----
    service,            \* discoverMCPServers: the state of the remote service
    lookupTechs,        \* the technologies it was given
    pending,            \* directories whose README lookup has not completed
    order,              \* directories in the order their lookups completed
    serverMap,          \* the servers object, then the mapping returned
    discoverState       \* "listing", "awaiting" or "returned"

synthVars == <<mcpJson, op, lookup, existingConfig, discoveredServers,
               newMcpConfig, addedTools, result, message, fsFailed>>
walkVars == <<walker, tree, dirs, stack, fileTypes, languages, seen, wstate>>
statsVars == <<mode, description, detected, projectStats, ref, input, steps, cwd,
               contains>>
runVars == <<request, invoked, runStack, pc, failures, written, discoveryCalls, servers,
             mcpConfig, returned, reply>>
rulesVars == <<techs, position, pages, rules, searchState>>
lookupVars == <<service, lookupTechs, pending, order, serverMap, discoverState>>
moreVars == <<runVars, rulesVars, lookupVars>>
vars == <<synthVars, walkVars, statsVars, moreVars>>

\* const stats: ProjectStats = { fileTypes: {}, languages: [], ... }
EmptyStats ==
    [fileTypes |-> [e \in {} |-> 0], languages |-> <<>>, frameworks |-> <<>>,
     dependencies |-> <<>>, features |-> <<>>]

\* const techStack: TechnologyStack = { languages: [], frameworks: [], features: [] }
EmptyTechStack == [languages |-> <<>>, frameworks |-> <<>>, features |-> <<>>]

NoInput == [kind |-> "none"]

\* The classifier variables while another specification runs.
StatsIdle ==
    /\ mode = "idle"
    /\ description = ""
    /\ detected = EmptyTechStack
    /\ projectStats = EmptyStats
    /\ ref = EmptyStats
    /\ input = NoInput
    /\ steps = 0
    /\ cwd = <<>>
    /\ contains = {}

(***************************************************************************)
(* JSON values of a tool-server configuration.                             *)
(***************************************************************************)

\* A JSON null stored under a tool name (a falsy entry value).
JsonNull == [json |-> "null"]

\* JavaScript truthiness of an entry value: objects are truthy, null is not.
Truthy(v) == "json" \notin DOMAIN v

EmptyMap == [n \in {} |-> JsonNull]

\* { mcpServers: {} }: the default of enhanceProject and the fresh
\* configuration of generateMCPConfig.
EmptyConfig == [hasServers |-> TRUE, mcpServers |-> EmptyMap]

\* Object.keys(config.mcpServers || {})
Keys(config) == IF config.hasServers THEN DOMAIN config.mcpServers ELSE {}

NoRequest == [via |-> "none"]
NoReply == [kind |-> "none"]

\* The variables of one invocation while another specification runs.
RunIdle ==
    /\ request = NoRequest
    /\ invoked = "none"
    /\ runStack = EmptyTechStack
    /\ pc = 0
    /\ failures = {}
    /\ written = <<>>
    /\ discoveryCalls = <<>>
    /\ servers = EmptyMap
    /\ mcpConfig = EmptyConfig
    /\ returned = "none"
    /\ reply = NoReply

\* The rule search variables while another specification runs.
RulesIdle ==
    /\ techs = <<>>
    /\ position = 0
    /\ pages = <<>>
    /\ rules = <<>>
    /\ searchState = "idle"

\* The server discovery variables while another specification runs.
LookupIdle ==
    /\ service = "none"
    /\ lookupTechs = <<>>
    /\ pending = {}
    /\ order = <<>>
    /\ serverMap = EmptyMap
    /\ discoverState = "idle"

(***************************************************************************)
(* Technology stacks (ProjectStats / TechnologyStack restricted to the     *)
(* three fields the synthesizer reads).                                    *)
(***************************************************************************)

NoStack == [languages |-> <<>>, frameworks |-> <<>>, features |-> <<>>]
ReactStack == [languages |-> <<"TypeScript">>, frameworks |-> <<"React">>,
               features |-> <<"API">>]

\* The stacks the scans and the free-text classifier hand to the synthesizer.
Stacks == {NoStack, ReactStack}

\* String.prototype.toLowerCase on the labels in use.
ToLower(s) ==
    CASE s = "TypeScript" -> "typescript"
      [] s = "React" -> "react"
      [] s = "API" -> "api"
      [] s = ".TS" -> ".ts"
      [] OTHER -> s

\* One character, lower-cased.
LowerChar(c) ==
    CASE c = "A" -> "a" [] c = "B" -> "b" [] c = "C" -> "c" [] c = "D" -> "d"
      [] c = "E" -> "e" [] c = "F" -> "f" [] c = "G" -> "g" [] c = "H" -> "h"
      [] c = "I" -> "i" [] c = "J" -> "j" [] c = "K" -> "k" [] c = "L" -> "l"
      [] c = "M" -> "m" [] c = "N" -> "n" [] c = "O" -> "o" [] c = "P" -> "p"
      [] c = "Q" -> "q" [] c = "R" -> "r" [] c = "S" -> "s" [] c = "T" -> "t"
      [] c = "U" -> "u" [] c = "V" -> "v" [] c = "W" -> "w" [] c = "X" -> "x"
      [] c = "Y" -> "y" [] c = "Z" -> "z"
      [] OTHER -> c

\* String.prototype.toLowerCase, character by character.
RECURSIVE ToLowerCase(_)
ToLowerCase(text) ==
    IF text = "" THEN ""
    ELSE LowerChar(SubSeq(text, 1, 1)) \o ToLowerCase(SubSeq(text, 2, Len(text)))

\* text holds part as a substring.
Contains(text, part) ==
    \E i \in 1..(Len(text) - Len(part) + 1) : SubSeq(text, i, i + Len(part) - 1) = part

\* text.match(/a|b|.../i), the alternatives given in lower case.
Matches(text, alternatives) ==
    LET low == ToLowerCase(text)
    IN \E part \in alternatives : Contains(low, part)

\* [...new Set(xs)]: first occurrences, in order.
RECURSIVE Dedup(_)
Dedup(xs) ==
    IF xs = <<>> THEN <<>>
    ELSE LET init == Dedup(SubSeq(xs, 1, Len(xs) - 1))
             last == xs[Len(xs)]
         IN IF \E i \in 1..Len(init) : init[i] = last THEN init
            ELSE Append(init, last)

\* [...languages, ...frameworks, ...features.map(f => f.toLowerCase())]
Technologies(techStack) ==
    techStack.languages \o techStack.frameworks
        \o [i \in 1..Len(techStack.features) |-> ToLower(techStack.features[i])]

(***************************************************************************)
(* The discovery collaborator as discoverMCPServers sees it: the GitHub    *)
(* listing request and one README request per server directory.            *)
(***************************************************************************)

\* Server directories a listing may hold.
ServerDirs == {"brave-search", "github"}

\* Entries every listing holds besides the server directories: a dot
\* directory and a plain file.
FixedItems == {[name |-> ".github", type |-> "dir"],
               [name |-> "README.md", type |-> "file"]}

\* name.startsWith('.')
StartsWithDot(name) == name = ".github"

\* Outcomes of one README request: the request throws (network error or a
\* status >= 500), or answers with a status and, for 200, a text that is
\* modelled by the set of lower-cased technology words occurring in it.
ReadmeOutcomes ==
    {[throws |-> TRUE, status |-> 0, content |-> {}],
     [throws |-> FALSE, status |-> 404, content |-> {}],
     [throws |-> FALSE, status |-> 200, content |-> {}],
     [throws |-> FALSE, status |-> 200, content |-> {"react"}]}

\* The states of the remote service during one call.
Worlds ==
    {[listing |-> "throws", items |-> {}, readme |-> EmptyMap],
     [listing |-> "notArray", items |-> {}, readme |-> EmptyMap]}
    \cup
    UNION {{[listing |-> "ok",
             items |-> {[name |-> d, type |-> "dir"] : d \in ds} \cup FixedItems,
             readme |-> r] : r \in [ds -> ReadmeOutcomes]} : ds \in SUBSET ServerDirs}

\* `@modelcontextprotocol/server-${dir.name}`
ServerPackage(name) ==
    CASE name = "brave-search" -> "@modelcontextprotocol/server-brave-search"
      [] name = "sequential-thinking" -> "@modelcontextprotocol/server-sequential-thinking"
      [] name = "github" -> "@modelcontextprotocol/server-github"
      [] OTHER -> "@modelcontextprotocol/server-"

BraveEnv == {<<"BRAVE_API_KEY", "YOUR_API_KEY_HERE">>}

\* The MCPServerInfo built for a listed directory (env is undefined except
\* for brave-search).
ServerInfo(name) ==
    [name |-> name, installCommand |-> "npx",
     installArgs |-> <<"-y", ServerPackage(name)>>,
     hasEnv |-> (name = "brave-search"),
     env |-> IF name = "brave-search" THEN BraveEnv ELSE {}]

\* The two servers returned when the lookup throws.
FallbackServers ==
    [n \in {"brave-search", "sequential-thinking"} |-> ServerInfo(n)]

\* technologies.reduce((score, tech) => score + (regex.test(readme) ? 1 : 0), 0)
RelevanceScore(technologies, content) ==
    Cardinality({i \in 1..Len(technologies) : ToLower(technologies[i]) \in content})

IsEssentialServer(name) == name \in {"brave-search", "sequential-thinking"}

\* The body run for one server directory: whether it adds servers[dir.name].
\* A README request that throws is caught and adds nothing.
IncludesServer(technologies, name, readme) ==
    /\ ~readme.throws
    /\ LET relevanceScore == IF readme.status = 200
                             THEN RelevanceScore(technologies, readme.content)
                             ELSE 0
       IN \/ relevanceScore > 0
          \/ IsEssentialServer(name)
          \/ Len(technologies) = 0

\* Mutant of DiscoverMCPServers: the catch block returns no server at all.
DiscoverMCPServers_NoFallback(technologies, world) ==
    IF world.listing # "ok" THEN EmptyMap
    ELSE LET serverDirs == {item.name : item \in
                              {it \in world.items :
                                  it.type = "dir" /\ ~StartsWithDot(it.name)}}
             kept == {d \in serverDirs :
                         IncludesServer(technologies, d, world.readme[d])}
         IN [d \in kept |-> ServerInfo(d)]

\* discoverMCPServers(technologies) against the service state `world`.
DiscoverMCPServers(technologies, world) ==
    IF world.listing = "throws" THEN FallbackServers
    ELSE IF world.listing = "notArray" THEN EmptyMap
    ELSE LET serverDirs == {item.name : item \in
                              {it \in world.items :
                                  it.type = "dir" /\ ~StartsWithDot(it.name)}}
             kept == {d \in serverDirs :
                         IncludesServer(technologies, d, world.readme[d])}
         IN [d \in kept |-> ServerInfo(d)]

\* How the lookup went, for the claims about failures.
LookupKind(world) ==
    IF world.listing # "ok" THEN world.listing
    ELSE IF \E d \in DOMAIN world.readme : world.readme[d].throws
         THEN "readmeThrows" ELSE "ok"

(***************************************************************************)
(* Config Synthesizer.                                                     *)
(***************************************************************************)

\* Mutant of ConfigEntry: the env key is always written.
ConfigEntry_EnvAlways(serverInfo) ==
    [env |-> serverInfo.env,
     command |-> serverInfo.installCommand, args |-> serverInfo.installArgs]

\* { command, args, ...(serverInfo.env ? { env } : {}) }
ConfigEntry(serverInfo) ==
    IF serverInfo.hasEnv
    THEN [env |-> serverInfo.env,
          command |-> serverInfo.installCommand, args |-> serverInfo.installArgs]
    ELSE [command |-> serverInfo.installCommand, args |-> serverInfo.installArgs]

\* generateMCPConfig of project-analyzer.ts, after its discovery call.
AnalyzerGenerateMCPConfig(discovered) ==
    [hasServers |-> TRUE,
     mcpServers |-> [n \in DOMAIN discovered |-> ConfigEntry(discovered[n])]]

\* generateMCPConfig of project-planner.ts, after its discovery call.
PlannerGenerateMCPConfig(discovered) ==
    [hasServers |-> TRUE,
     mcpServers |-> [n \in DOMAIN discovered |-> ConfigEntry(discovered[n])]]

\* The technologies list, the discovery calls made with it and the
\* configuration built from the answer.
Generated(technologies, discovered, config) ==
    [config |-> config, discovered |-> discovered, calls |-> <<technologies>>]

\* generateMCPConfig(stats) of project-analyzer.ts.
AnalyzerGenerate(techStack, world) ==
    LET technologies == Technologies(techStack)
        discovered == DiscoverMCPServers(technologies, world)
    IN Generated(technologies, discovered, AnalyzerGenerateMCPConfig(discovered))

\* generateMCPConfig(techStack) of project-planner.ts.
PlannerGenerate(techStack, world) ==
    LET technologies == Technologies(techStack)
        discovered == DiscoverMCPServers(technologies, world)
    IN Generated(technologies, discovered, PlannerGenerateMCPConfig(discovered))

\* An object on the heap: which object it is and what it holds.
Obj(id, value) == [id |-> id, value |-> value]

\* Mutant of JsonCopy: newConfig is the object it was given.
JsonCopy_SameObject(obj) == obj

\* JSON.parse(JSON.stringify(existingConfig)): a new object, rebuilt key by
\* key.
JsonCopy(obj) ==
    Obj("copy",
        [hasServers |-> obj.value.hasServers,
         mcpServers |-> [n \in DOMAIN obj.value.mcpServers |-> obj.value.mcpServers[n]]])

\* generateEnhancedMCPConfig, after its discovery call: a discovered server
\* is stored unless newConfig.mcpServers[serverName] is truthy.
GenerateEnhancedMCPConfig(existing, discovered) ==
    LET copy == JsonCopy(Obj("existingConfig", existing)).value
        base == IF copy.hasServers THEN copy.mcpServers ELSE EmptyMap
        names == DOMAIN base \cup DOMAIN discovered
    IN [hasServers |-> TRUE,
        mcpServers |->
            [n \in names |->
                IF n \in DOMAIN discovered /\ (n \notin DOMAIN base \/ ~Truthy(base[n]))
                THEN ConfigEntry(discovered[n])
                ELSE base[n]]]

\* What the existingConfig object of enhanceProject holds once
\* generateEnhancedMCPConfig has returned: the writes to newConfig reach it
\* when newConfig is that same object.
ExistingAfterEnhance(existing, discovered) ==
    IF JsonCopy(Obj("existingConfig", existing)).id = "existingConfig"
    THEN GenerateEnhancedMCPConfig(existing, discovered)
    ELSE existing

\* generateEnhancedMCPConfig(techStack, existingConfig) of project-enhancer.ts.
EnhancerGenerate(techStack, existing, world) ==
    LET technologies == Technologies(techStack)
        discovered == DiscoverMCPServers(technologies, world)
    IN Generated(technologies, discovered, GenerateEnhancedMCPConfig(existing, discovered))

\* Mutant of FindNewTools: a tool counts as old only if its old entry is
\* truthy (the test generateEnhancedMCPConfig applies).
FindNewTools_Truthy(oldConfig, newConfig) ==
    {tool \in Keys(newConfig) :
        ~(tool \in Keys(oldConfig) /\ Truthy(oldConfig.mcpServers[tool]))}

\* findNewTools(oldConfig, newConfig)
FindNewTools(oldConfig, newConfig) ==
    {tool \in Keys(newConfig) : tool \notin Keys(oldConfig)}

(***************************************************************************)
(* The entry points, one action each.  The file system is the part of the  *)
(* state they share: the content of <project>/.cursor/mcp.json.            *)
(***************************************************************************)

\* A tool entry written by the user, not by discovery.
CustomEntry == [command |-> "node", args |-> <<"server.js">>]

\* Tool names a configuration on disk may hold before the first call.
ExistingNames == {"brave-search", "custom-tool"}

\* Configurations a project may hold on disk before the first call: any
\* map from some of ExistingNames to a user entry or null, or a JSON object
\* without the mcpServers key.
InitialConfigs ==
    {[hasServers |-> FALSE, mcpServers |-> EmptyMap]}
    \cup UNION {{[hasServers |-> TRUE, mcpServers |-> m] :
                    m \in [ns -> {CustomEntry, JsonNull}]} : ns \in SUBSET ExistingNames}

FileAbsent == [kind |-> "absent", config |-> EmptyConfig]
FileGarbage == [kind |-> "garbage", config |-> EmptyConfig]
FileJson(config) == [kind |-> "json", config |-> config]

\* let existingConfig = { mcpServers: {} }; try { existingConfig =
\* JSON.parse(await fs.readFile(mcpConfigPath)) } catch {}
LoadExistingConfig(file) ==
    IF file.kind = "json" THEN file.config ELSE EmptyConfig

\* combinedTechStack of enhanceProject
CombinedTechStack(existingStats, newFeatures) ==
    [languages |-> Dedup(existingStats.languages \o newFeatures.languages),
     frameworks |-> Dedup(existingStats.frameworks \o newFeatures.frameworks),
     features |-> Dedup(newFeatures.features)]

\* Mutant of Handling: the configuration is written outside the try block.
Handling_WriteOutsideTry(o, call) ==
    CASE call \in {"readdir", "mkdir", "mkdirRules"} -> "swallowed"
      [] call = "writeMcp" -> "none"
      [] OTHER -> "caught"

\* What happens to the failure of a file-system call of entry point o:
\*   readdir   a directory read of scanProject fails with a non-permission
\*             error: the catch of scanDir logs it and the scan goes on;
\*   mkdir, mkdirRules   creating the project or .cursor directory, or the
\*             rules directory, fails: the inner try/catch around fs.mkdir
\*             drops it;
\*   access, writeMcp, writeRules, writeStarter   fs.access, the
\*             fs.writeFile of mcp.json and of project_rules.json and the
\*             fs.writeFile calls of generateStarterFiles are covered by the
\*             try block of the entry point only.
Handling(o, call) ==
    CASE call \in {"readdir", "mkdir", "mkdirRules"} -> "swallowed"
      [] OTHER -> "caught"

\* Mutant of Steps: the rules are written before the configuration.
Steps_RulesFirst(o) ==
    CASE o = "analyze" -> <<"access", "readdir", "generate", "mkdir", "mkdirRules",
                            "writeRules", "writeMcp">>
      [] o = "plan" -> <<"generate", "mkdir", "mkdirRules", "writeRules", "writeMcp",
                         "writeStarter">>
      [] o = "enhance" -> <<"readdir", "generate", "mkdir", "writeMcp">>

\* The steps of entry point o in the order it takes them: its file-system
\* calls (readdir stands for scanProject, writeStarter for
\* generateStarterFiles) and the call of its configuration generator.
Steps(o) ==
    CASE o = "analyze" -> <<"access", "readdir", "generate", "mkdir", "writeMcp",
                            "mkdirRules", "writeRules">>
      [] o = "plan" -> <<"generate", "mkdir", "writeMcp", "mkdirRules", "writeRules",
                         "writeStarter">>
      [] o = "enhance" -> <<"readdir", "generate", "mkdir", "writeMcp">>

McpFile == ".cursor/mcp.json"
RulesFile == ".cursor/rules/project_rules.json"
StarterFiles == "starter files"

\* What each fs.writeFile call writes.
FileWritten(call) ==
    CASE call = "writeMcp" -> McpFile
      [] call = "writeRules" -> RulesFile
      [] call = "writeStarter" -> StarterFiles

\* generateStarterFiles writes files for TypeScript, JavaScript and Python
\* stacks only.
HasStarterFiles(techStack) ==
    \E i \in DOMAIN techStack.languages :
        techStack.languages[i] \in {"TypeScript", "JavaScript", "Python"}

\* How a call of entry point o ends when the file-system call fsFail fails.
Outcome(o, fsFail) ==
    IF fsFail = "none" \/ Handling(o, fsFail) = "swallowed" THEN "ok"
    ELSE IF Handling(o, fsFail) = "caught" THEN "error"
    ELSE "rejected"

\* return `Error analyzing project: ${...}` and its two siblings.
ErrorPrefix(o) ==
    CASE o = "analyze" -> "Error analyzing project:"
      [] o = "plan" -> "Error planning project:"
      [] o = "enhance" -> "Error enhancing project:"

\* The first line of the success reports.
SuccessHeader(o) ==
    CASE o = "analyze" -> "# Project Analysis Complete"
      [] o = "plan" -> "# Project Planning Complete"
      [] o = "enhance" -> "# Project Enhancement Complete"

\* How the text an entry point resolves to begins; "none" when it rejects.
Message(o, outcome) ==
    CASE outcome = "ok" -> SuccessHeader(o)
      [] outcome = "error" -> ErrorPrefix(o)
      [] OTHER -> "none"

\* analyzeProject(projectPath): stats is what scanProject returned, world the
\* state of the discovery service, fsFail the file-system call that fails.
AnalyzeProject ==
    \E stats \in Stacks, world \in Worlds,
       fsFail \in {"none", "access", "readdir", "mkdir", "writeMcp"} :
        /\ op' = "analyze"
        /\ fsFailed' = fsFail
        /\ result' = Outcome("analyze", fsFail)
        /\ message' = Message("analyze", Outcome("analyze", fsFail))
        /\ existingConfig' = EmptyConfig
        /\ addedTools' = {}
        /\ IF fsFail = "access"
           THEN /\ lookup' = "none"
                /\ discoveredServers' = EmptyMap
                /\ newMcpConfig' = EmptyConfig
                /\ UNCHANGED mcpJson
           ELSE \E generated \in {AnalyzerGenerate(stats, world)} :
                   /\ lookup' = LookupKind(world)
                   /\ discoveredServers' = generated.discovered
                   /\ newMcpConfig' = generated.config
                   /\ IF Outcome("analyze", fsFail) = "ok"
                      THEN mcpJson' = FileJson(generated.config)
                      ELSE UNCHANGED mcpJson
        /\ UNCHANGED <<walkVars, statsVars, moreVars>>

\* planProject(description, projectPath): techStack is what analyzeTechStack
\* returned for the description.
PlanProject ==
    \E techStack \in Stacks, world \in Worlds, fsFail \in {"none", "mkdir", "writeMcp"} :
        \E generated \in {PlannerGenerate(techStack, world)} :
           /\ op' = "plan"
           /\ fsFailed' = fsFail
           /\ existingConfig' = EmptyConfig
           /\ addedTools' = {}
           /\ lookup' = LookupKind(world)
           /\ discoveredServers' = generated.discovered
           /\ newMcpConfig' = generated.config
           /\ result' = Outcome("plan", fsFail)
           /\ message' = Message("plan", Outcome("plan", fsFail))
           /\ IF Outcome("plan", fsFail) = "ok"
              THEN mcpJson' = FileJson(generated.config)
              ELSE UNCHANGED mcpJson
           /\ UNCHANGED <<walkVars, statsVars, moreVars>>

\* enhanceProject(projectPath, newRequirements): existingStats is what
\* scanProject returned, newFeatures what analyzeTechStack returned.
EnhanceProject ==
    \E existingStats \in Stacks, newFeatures \in Stacks, world \in Worlds,
       fsFail \in {"none", "readdir", "mkdir", "writeMcp"} :
        \E existing \in {LoadExistingConfig(mcpJson)},
           combined \in {CombinedTechStack(existingStats, newFeatures)} :
        \E generated \in {EnhancerGenerate(combined, existing, world)} :
        \E enhanced \in {generated.config},
           existingAfter \in {ExistingAfterEnhance(existing, generated.discovered)} :
           /\ op' = "enhance"
           /\ fsFailed' = fsFail
           /\ existingConfig' = existingAfter
           /\ lookup' = LookupKind(world)
           /\ discoveredServers' = generated.discovered
           /\ newMcpConfig' = enhanced
           /\ result' = Outcome("enhance", fsFail)
           /\ message' = Message("enhance", Outcome("enhance", fsFail))
           /\ IF Outcome("enhance", fsFail) # "ok"
              THEN /\ addedTools' = {}
                   /\ UNCHANGED mcpJson
              ELSE /\ addedTools' = FindNewTools(existingAfter, enhanced)
                   /\ mcpJson' = FileJson(enhanced)
           /\ UNCHANGED <<walkVars, statsVars, moreVars>>

\* The walk variables while the synthesis specification runs.
WalkIdle ==
    /\ walker = "none"
    /\ tree = "none"
    /\ dirs = <<>>
    /\ stack = <<>>
    /\ fileTypes = EmptyMap
    /\ languages = <<>>
    /\ seen = 0
    /\ wstate = "idle"

SynthInit ==
    /\ mcpJson \in {FileAbsent, FileGarbage} \cup {FileJson(c) : c \in InitialConfigs}
    /\ op = "none"
    /\ lookup = "none"
    /\ existingConfig = EmptyConfig
    /\ discoveredServers = EmptyMap
    /\ newMcpConfig = EmptyConfig
    /\ addedTools = {}
    /\ result = "none"
    /\ message = "none"
    /\ fsFailed = "none"
    /\ WalkIdle
    /\ StatsIdle
    /\ RunIdle /\ RulesIdle /\ LookupIdle

SynthNext == AnalyzeProject \/ PlanProject \/ EnhanceProject

SynthSpec == SynthInit /\ [][SynthNext]_vars

(***************************************************************************)
(* Scan Limiter & Walker: scanProjectDirectory (utils/fs.ts) and the       *)
(* scanDir helper of scanProject (project-analyzer.ts).                    *)
(*                                                                         *)
(* readdir is the environment: the listing of a directory is drawn when    *)
(* the walker reads it.  A run of n consecutive files of one name pattern  *)
(* is one "files" entry; the loop body runs n times on it without leaving  *)
(* the loop, so its effect is applied at once.                             *)
(***************************************************************************)

MAX_SCAN_DEPTH == 10
MAX_FILES == 10000

\* Entries (directories and runs of files) of a drawn tree, over all its
\* listings.
MaxTreeEntries == 4
\* Nesting of the chain tree: src/src/.../src, ChainLen levels below the root.
ChainLen == 11

Walkers == {"scanProjectDirectory", "scanProject"}

\* Mutant of SpdIgnores: node_modules is missing from the test.
SpdIgnores_NoNodeModules(name) ==
    name \in {".git", "venv", "__pycache__", ".next", "dist", "build"}

\* The name test of scanProjectDirectory.
SpdIgnores(name) ==
    name \in {"node_modules", ".git", "venv", "__pycache__", ".next", "dist", "build"}

\* The name test of scanDir.
ScanDirIgnores(name) ==
    name \in {"node_modules", ".git", "venv", "__pycache__", ".next", "dist", "build"}

Ignores(w, name) ==
    IF w = "scanProjectDirectory" THEN SpdIgnores(name) ELSE ScanDirIgnores(name)

\* DEFAULT_SCAN_CONFIG of config/project-scan.ts.
ConfigIgnoredDirectories ==
    {"node_modules", ".git", "venv", "__pycache__", ".next", "dist", "build",
     ".vscode", ".idea", ".DS_Store"}
ConfigMaxDepth == 10
ConfigMaxFiles == 10000

\* Names of the directories a listing may hold, of the root, and the
\* currentDepth arguments scanProjectDirectory is started with.
DirNames == {"src", "lib", "node_modules", ".vscode"}
RootNames == {"project", "build"}
StartDepths == {1, 8, 10}

DirEntry(name) == [kind |-> "dir", n |-> 0, name |-> name, id |-> 0]
FileEntry(name, n) == [kind |-> "file", n |-> n, name |-> name, id |-> 0]

\* What a listing is made of: directories, one file with an extension, one
\* without, and a run of MAX_FILES files.
Alphabet ==
    {DirEntry(nm) : nm \in DirNames}
        \cup {FileEntry("file.js", 1), FileEntry("Dockerfile", 1),
              FileEntry("Data.TS", MAX_FILES)}

\* The listings readdir may return: no two directories of one name.  src and
\* lib are treated alike by the walkers, so lib stands for "a second
\* ordinary directory" and is listed only after src.
ValidListing(l) ==
        /\ \A i, j \in DOMAIN l :
              (i # j /\ l[i].kind = "dir" /\ l[j].kind = "dir") => l[i].name # l[j].name
        /\ \A j \in DOMAIN l :
              l[j].name = "lib" => \E i \in 1..(j - 1) : l[i].name = "src"

\* Listings[k]: the listings of at most k entries.
Listings ==
    [k \in 0..MaxTreeEntries |->
        {l \in UNION {[1..n -> Alphabet] : n \in 0..k} : ValidListing(l)}]

\* Entries drawn so far, over the listings of the first n directories.
RECURSIVE Drawn(_, _)
Drawn(ds, n) == IF n = 0 THEN 0 ELSE Len(ds[n].listing) + Drawn(ds, n - 1)

\* The listing of the chain tree at a depth.
ChainListing(depth) ==
    IF depth < ChainLen THEN <<DirEntry("src")>> ELSE <<FileEntry("file.js", 1)>>

\* path.extname(entry.name): from the last dot on, empty when there is no
\* dot or the only dot starts the name.
Extname(name) ==
    LET dots == {i \in 1..Len(name) : SubSeq(name, i, i) = "."}
        last == CHOOSE i \in dots : \A j \in dots : j <= i
    IN IF dots = {} \/ dots = {1} THEN "" ELSE SubSeq(name, last, Len(name))

\* Mutant of ExtensionOf: the case of the extension is kept.
ExtensionOf_CaseKept(name) == Extname(name)

\* The names of the files of the projects considered.
FileNames ==
    {"file.js", "Dockerfile", "Data.TS", "index.js", "App.TSX", "README",
     "package.json", "requirements.txt", "build.gradle", "pom.xml", "Gemfile",
     "docker-compose.yml", "docker-compose.yaml", "Jenkinsfile", ".gitlab-ci.yml"}

\* path.extname(name).toLowerCase() of each of them.
LowerExtname == [name \in FileNames |-> ToLowerCase(Extname(name))]

\* const ext = path.extname(entry.name).toLowerCase();
ExtensionOf(name) == LowerExtname[name]

\* The extension chain of scanDir: the language an extension stands for,
\* "" when none.
LanguageOfExt(ext) ==
    CASE ext \in {".js", ".jsx"} -> "JavaScript"
      [] ext \in {".ts", ".tsx"} -> "TypeScript"
      [] ext = ".py" -> "Python"
      [] ext = ".java" -> "Java"
      [] ext = ".go" -> "Go"
      [] ext \in {".rb", ".rake"} -> "Ruby"
      [] ext = ".php" -> "PHP"
      [] ext = ".cs" -> "C#"
      [] ext = ".rs" -> "Rust"
      [] ext = ".swift" -> "Swift"
      [] ext \in {".kt", ".kts"} -> "Kotlin"
      [] ext = ".dart" -> "Dart"
      [] OTHER -> ""

\* A directory the walk has met: where it is, and what the walk did to it.
\*   calls      invocations of the walker on it
\*   reads      readdir calls on it
\*   argCount   the fileCount argument of the invocation (-1: none yet)
\*   seenAtRead files processed in the whole walk when it was read (-1: not read)
\*   counted    files of it that were processed
\*   listing    what readdir returned for it
\*   err        the code of the error readdir failed with on it, or "none"
NewDir(name, depth, parent) ==
    [name |-> name, listing |-> <<>>, calls |-> 0, depth |-> depth,
     parent |-> parent, reads |-> 0, argCount |-> -1, seenAtRead |-> -1,
     counted |-> 0, err |-> "none"]

\* The listing with its directories numbered from base + 1, in order.
WithIds(l, base) ==
    [i \in DOMAIN l |->
        IF l[i].kind = "dir"
        THEN [l[i] EXCEPT !.id = base + Cardinality({j \in 1..i : l[j].kind = "dir"})]
        ELSE l[i]]

\* The directory records of the directories of a listing of directory d.
ChildDirs(l, d, depth) ==
    LET idx == {i \in DOMAIN l : l[i].kind = "dir"}
        nth(k) == CHOOSE i \in idx : Cardinality({j \in idx : j <= i}) = k
    IN [k \in 1..Cardinality(idx) |-> NewDir(l[nth(k)].name, depth + 1, d)]

\* Mutant of GuardStops: the depth test is off by one.
GuardStops_DepthOffByOne(w, depth, fileCount) ==
    w = "scanProjectDirectory" /\ (depth > MAX_SCAN_DEPTH \/ fileCount >= MAX_FILES)

\* if (currentDepth >= MAX_SCAN_DEPTH || fileCount >= MAX_FILES) return;
\* scanDir has no such test.
GuardStops(w, depth, fileCount) ==
    w = "scanProjectDirectory" /\ (depth >= MAX_SCAN_DEPTH \/ fileCount >= MAX_FILES)

\* The error codes readdir may fail with: permission denied, and one other.
ErrorCodes == {"EACCES", "ENOENT"}

\* Mutant of Rethrows: scanProjectDirectory rethrows permission errors too.
Rethrows_Always(w, code) == w = "scanProjectDirectory"

\* The catch blocks: scanProjectDirectory warns on EACCES and rethrows
\* anything else; scanDir logs every error and returns.
Rethrows(w, code) == w = "scanProjectDirectory" /\ code # "EACCES"

\* One invocation of the walker on directory d with the fileCount argument
\* fc, up to the point where its loop starts or it returns; rest is the
\* stack of the callers.
Invoke(d, fc, rest) ==
    LET depth == dirs[d].depth
        calledDir == [dirs[d] EXCEPT !.calls = @ + 1, !.argCount = fc]
        readDir == [calledDir EXCEPT !.reads = @ + 1, !.seenAtRead = seen]
        back == IF rest = <<>> THEN "done" ELSE "walking"
    IN IF GuardStops(walker, depth, fc)
       THEN /\ dirs' = [dirs EXCEPT ![d] = calledDir]
            /\ stack' = rest
            /\ wstate' = back
       ELSE \/ \E l \in (IF tree = "chain" THEN {ChainListing(depth)}
                         ELSE Listings[MaxTreeEntries - Drawn(dirs, Len(dirs))]) :
                 LET listing == WithIds(l, Len(dirs))
                 IN /\ dirs' = [dirs EXCEPT ![d] = [readDir EXCEPT !.listing = l]]
                               \o ChildDirs(l, d, depth)
                    /\ stack' = Append(rest, [dir |-> d, depth |-> depth,
                                              fileCount |-> fc, todo |-> listing])
                    /\ wstate' = "walking"
            \/ \* readdir fails: the call returns to its caller, or the error
               \* is rethrown by the catch block of this call and, not being
               \* EACCES, by that of every caller
               \E code \in ErrorCodes :
                   /\ tree = "any"
                   /\ dirs' = [dirs EXCEPT ![d] = [readDir EXCEPT !.err = code]]
                   /\ IF Rethrows(walker, code)
                      THEN stack' = <<>> /\ wstate' = "thrown"
                      ELSE stack' = rest /\ wstate' = back

\* The first call: scanProjectDirectory(projectPath, stats, currentDepth) or
\* scanDir(projectPath).
WalkStart ==
    /\ wstate = "start"
    /\ Invoke(1, 0, <<>>)
    /\ UNCHANGED <<walker, tree, fileTypes, languages, seen, synthVars, statsVars, moreVars>>

Top == stack[Len(stack)]
Entry == Top.todo[1]
\* The stack with the innermost loop advanced past its current entry.
Advanced(fileCount) ==
    [stack EXCEPT ![Len(stack)] =
        [@ EXCEPT !.todo = Tail(@), !.fileCount = fileCount]]

\* The loop meets a directory on the ignore list: continue.
SkipIgnored ==
    /\ wstate = "walking" /\ Top.todo # <<>>
    /\ Entry.kind = "dir" /\ Ignores(walker, Entry.name)
    /\ stack' = Advanced(Top.fileCount)
    /\ UNCHANGED <<walker, tree, dirs, fileTypes, languages, seen, wstate, synthVars, statsVars, moreVars>>

\* The loop meets any other directory: the recursive call, with
\* currentDepth + 1 and the caller's fileCount.
Descend ==
    /\ wstate = "walking" /\ Top.todo # <<>>
    /\ Entry.kind = "dir" /\ ~Ignores(walker, Entry.name)
    /\ Invoke(Entry.id, Top.fileCount, Advanced(Top.fileCount))
    /\ UNCHANGED <<walker, tree, fileTypes, languages, seen, synthVars, statsVars, moreVars>>

\* The loop meets a run of Entry.n files: fileTypes[ext]++ when the
\* extension is not empty, fileCount++ (scanProjectDirectory), and the
\* language chain (scanDir).
CountFiles ==
    /\ wstate = "walking" /\ Top.todo # <<>>
    /\ Entry.kind = "file"
    /\ LET ext == ExtensionOf(Entry.name)
           lang == LanguageOfExt(ext)
       IN /\ fileTypes' =
                 IF ext = "" THEN fileTypes
                 ELSE [e \in DOMAIN fileTypes \cup {ext} |->
                          IF e = ext
                          THEN (IF e \in DOMAIN fileTypes THEN fileTypes[e] ELSE 0) + Entry.n
                          ELSE fileTypes[e]]
          /\ languages' =
                 IF walker = "scanProject" /\ ext # "" /\ lang # ""
                    /\ ~\E i \in DOMAIN languages : languages[i] = lang
                 THEN Append(languages, lang)
                 ELSE languages
    /\ stack' = Advanced(IF walker = "scanProjectDirectory"
                         THEN Top.fileCount + Entry.n ELSE Top.fileCount)
    /\ dirs' = [dirs EXCEPT ![Top.dir].counted = @ + Entry.n]
    /\ seen' = seen + Entry.n
    /\ UNCHANGED <<walker, tree, wstate, synthVars, statsVars, moreVars>>

\* The loop of the innermost call is over: it returns to its caller.
Return ==
    /\ wstate = "walking" /\ Top.todo = <<>>
    /\ stack' = SubSeq(stack, 1, Len(stack) - 1)
    /\ wstate' = IF Len(stack) = 1 THEN "done" ELSE "walking"
    /\ UNCHANGED <<walker, tree, dirs, fileTypes, languages, seen, synthVars, statsVars, moreVars>>

\* The synthesis variables while the walk specification runs.
SynthIdle ==
    /\ mcpJson = FileAbsent
    /\ op = "none"
    /\ lookup = "none"
    /\ existingConfig = EmptyConfig
    /\ discoveredServers = EmptyMap
    /\ newMcpConfig = EmptyConfig
    /\ addedTools = {}
    /\ result = "none"
    /\ message = "none"
    /\ fsFailed = "none"

WalkInit ==
    /\ walker \in Walkers
    /\ tree \in {"any", "chain"}
    /\ \E name \in (IF tree = "chain" THEN {"project"} ELSE RootNames),
          depth \in (IF tree = "any" /\ walker = "scanProjectDirectory"
                     THEN StartDepths ELSE {0}) :
          dirs = <<NewDir(name, depth, 0)>>
    /\ stack = <<>>
    /\ fileTypes = EmptyMap
    /\ languages = <<>>
    /\ seen = 0
    /\ wstate = "start"
    /\ SynthIdle
    /\ StatsIdle
    /\ RunIdle /\ RulesIdle /\ LookupIdle

WalkNext == WalkStart \/ SkipIgnored \/ Descend \/ CountFiles \/ Return

WalkSpec == WalkInit /\ [][WalkNext]_vars

(***************************************************************************)
(* Free-text classification: analyzeTechStack (project-planner.ts).       *)
(* Texts are strings; a regular expression without anchors matches a text *)
(* when one of its alternatives occurs in it, and the i flag compares     *)
(* letters without their case.                                            *)
(***************************************************************************)

\* One test of analyzeTechStack: the label is pushed when the text matches
\* one of `any' and (JavaScript only) does not match one of `none'.
Test(label, any, none) == [none |-> none, any |-> any, label |-> label]

\* Mutant of LanguageTests: the JavaScript test has no TypeScript condition.
LanguageTests_NoSuppression ==
    <<Test("TypeScript", {"typescript", "ts", "angular", "react", "nextjs", "next.js",
                          "vue", "nodejs", "node.js"}, {}),
      Test("JavaScript", {"javascript", "js", "nodejs", "node.js", "express", "react",
                          "vue"}, {}),
      Test("Python", {"python", "django", "flask", "fastapi", "jupyter", "numpy",
                      "pandas"}, {}),
      Test("Java", {"java", "spring", "springboot", "gradle", "maven"}, {}),
      Test("Go", {"go", "golang"}, {}),
      Test("Ruby", {"ruby", "rails", "rack", "sinatra"}, {}),
      Test("C#", {"c#", ".net", "asp.net", "dotnet"}, {}),
      Test("PHP", {"php", "laravel", "symfony", "wordpress"}, {}),
      Test("Swift", {"swift", "ios", "iphone", "ipad"}, {}),
      Test("Kotlin", {"kotlin", "android"}, {}),
      Test("Rust", {"rust", "cargo"}, {})>>

\* // Detect languages
LanguageTests ==
    <<Test("TypeScript", {"typescript", "ts", "angular", "react", "nextjs", "next.js",
                          "vue", "nodejs", "node.js"}, {}),
      Test("JavaScript", {"javascript", "js", "nodejs", "node.js", "express", "react",
                          "vue"}, {"typescript", "ts"}),
      Test("Python", {"python", "django", "flask", "fastapi", "jupyter", "numpy",
                      "pandas"}, {}),
      Test("Java", {"java", "spring", "springboot", "gradle", "maven"}, {}),
      Test("Go", {"go", "golang"}, {}),
      Test("Ruby", {"ruby", "rails", "rack", "sinatra"}, {}),
      Test("C#", {"c#", ".net", "asp.net", "dotnet"}, {}),
      Test("PHP", {"php", "laravel", "symfony", "wordpress"}, {}),
      Test("Swift", {"swift", "ios", "iphone", "ipad"}, {}),
      Test("Kotlin", {"kotlin", "android"}, {}),
      Test("Rust", {"rust", "cargo"}, {})>>

\* // Detect frameworks (\s+ and \s* as one blank or none)
FrameworkTests ==
    <<Test("React", {"react"}, {}),
      Test("Next.js", {"nextjs", "next.js"}, {}),
      Test("Vue.js", {"vue", "vuejs", "vue.js"}, {}),
      Test("Angular", {"angular"}, {}),
      Test("Express", {"express", "expressjs", "express.js"}, {}),
      Test("Django", {"django"}, {}),
      Test("Flask", {"flask"}, {}),
      Test("FastAPI", {"fastapi"}, {}),
      Test("Rails", {"rails", "ruby on rails"}, {}),
      Test("Spring", {"spring", "springboot", "spring boot"}, {}),
      Test("Laravel", {"laravel"}, {}),
      Test("ASP.NET", {"asp.net"}, {}),
      Test("Svelte", {"svelte"}, {}),
      Test("Flutter", {"flutter"}, {}),
      Test("Gatsby", {"gatsby"}, {}),
      Test("Nuxt.js", {"nuxt"}, {})>>

\* // Detect features
FeatureTests ==
    <<Test("API", {"api", "rest", "restful", "graphql", "endpoint"}, {}),
      Test("Database", {"database", "db", "sql", "nosql", "mongo", "postgres", "mysql",
                        "sqlite"}, {}),
      Test("Authentication", {"auth", "authentication", "login", "user", "permission",
                              "role", "jwt", "oauth"}, {}),
      Test("Frontend", {"frontend", "ui", "interface", "client", "spa", "singlepage",
                        "single page"}, {}),
      Test("Backend", {"backend", "server", "api"}, {}),
      Test("Mobile", {"mobile", "ios", "android", "app", "reactnative", "react native"}, {}),
      Test("Testing", {"test", "jest", "mocha", "cypress", "testing", "unittest",
                       "unit test", "e2e"}, {}),
      Test("Containerization", {"docker", "container", "kubernetes", "k8s",
                                "containeriz"}, {}),
      Test("CI/CD", {"ci", "cd", "ci/cd", "continuousintegration",
                     "continuous integration", "continuousdeployment",
                     "continuous deployment", "githubactions", "github actions",
                     "jenkins"}, {}),
      Test("File Storage", {"file", "upload", "download", "storage", "s3", "blob"}, {}),
      Test("Real-time", {"realtime", "real time", "websocket", "socket.io", "liveupdate",
                         "live update"}, {}),
      Test("Analytics", {"analytics", "metrics", "monitoring", "logging"}, {})>>

\* The labels of the tests the text passes, in the order of the tests.
RECURSIVE Pushed(_, _)
Pushed(text, tests) ==
    IF tests = <<>> THEN <<>>
    ELSE LET t == Head(tests)
         IN (IF Matches(text, t.any) /\ ~Matches(text, t.none) THEN <<t.label>> ELSE <<>>)
            \o Pushed(text, Tail(tests))

\* analyzeTechStack(description)
AnalyzeTechStackOf(text) ==
    [languages |-> Pushed(text, LanguageTests),
     frameworks |-> Pushed(text, FrameworkTests),
     features |-> Pushed(text, FeatureTests)]

\* Words of a description.
MaxWords == 2

Vocabulary ==
    {"TypeScript", "TS", "projects", "JavaScript", "js", "Node.js", "express",
     "React", "vue", "Python", "tool", "API"}

\* The words joined by blanks.
RECURSIVE Join(_)
Join(words) ==
    IF words = <<>> THEN ""
    ELSE IF Len(words) = 1 THEN words[1]
    ELSE words[1] \o " " \o Join(Tail(words))

Descriptions ==
    {Join(words) : words \in UNION {[1..n -> Vocabulary] : n \in 0..MaxWords}}

\* One call of analyzeTechStack on the description.
AnalyzeTechStack ==
    /\ mode = "classify"
    /\ detected' = AnalyzeTechStackOf(description)
    /\ mode' = "classified"
    /\ UNCHANGED <<description, projectStats, ref, input, steps, cwd, contains, synthVars,
                   walkVars, moreVars>>

(***************************************************************************)
(* The file branch of scanDir (project-analyzer.ts): what one regular     *)
(* file does to stats.  A file is its name, whether fs.readFile succeeds  *)
(* on it, and its content.                                                *)
(***************************************************************************)

\* xs.includes(x)
Includes(xs, x) == \E i \in DOMAIN xs : xs[i] = x

\* if (!xs.includes(x)) xs.push(x)
PushNew(xs, x) == IF Includes(xs, x) THEN xs ELSE Append(xs, x)

\* if (cond) xs.push(x)
PushIf(xs, cond, x) == IF cond THEN Append(xs, x) ELSE xs

\* if (cond && !xs.includes(x)) xs.push(x)
PushNewIf(xs, cond, x) == IF cond THEN PushNew(xs, x) ELSE xs

\* The ext part of the file branch: fileTypes[ext]++ and the language chain.
TrackExtension(st, name) ==
    LET ext == ExtensionOf(name)
        lang == LanguageOfExt(ext)
    IN IF ext = "" THEN st
       ELSE [st EXCEPT
               !.fileTypes = [e \in DOMAIN @ \cup {ext} |->
                                 IF e = ext THEN (IF e \in DOMAIN @ THEN @[e] ELSE 0) + 1
                                 ELSE @[e]],
               !.languages = IF lang = "" THEN @ ELSE PushNew(@, lang)]

\* The order in which the keys of a dependency object are enumerated.
DepOrder == <<"react", "express", "expressive", "lodash", "jest", "constructor">>

\* Object.keys(deps)
DepKeys(deps) == SelectSeq(DepOrder, LAMBDA d : d \in DOMAIN deps)

NoDeps == [d \in {} |-> ""]

\* { ...a, ...b }
Spread(a, b) ==
    [d \in DOMAIN a \cup DOMAIN b |-> IF d \in DOMAIN b THEN b[d] ELSE a[d]]

\* deps[d] as a condition: the key is there and its version is not "".
TruthyDep(deps, d) == d \in DOMAIN deps /\ deps[d] # ""

AnyTruthyDep(deps, ds) == \E d \in ds : TruthyDep(deps, d)

\* Mutant of ParsePackage: a text cut short is parsed up to the cut.
ParsePackage_Lenient(file) ==
    IF file.readable /\ file.content.form \in {"object", "truncated"}
    THEN [ok |-> TRUE,
          deps |-> Spread(file.content.dependencies, file.content.devDependencies)]
    ELSE [ok |-> FALSE, deps |-> NoDeps]

\* readFile, JSON.parse and the deps object of the package.json branch; ok
\* is FALSE when one of them throws (unreadable file, text that is not JSON,
\* JSON null).
ParsePackage(file) ==
    IF file.readable /\ file.content.form = "object"
    THEN [ok |-> TRUE,
          deps |-> Spread(file.content.dependencies, file.content.devDependencies)]
    ELSE [ok |-> FALSE, deps |-> NoDeps]

RECURSIVE PushAllNew(_, _)
PushAllNew(xs, ys) ==
    IF ys = <<>> THEN xs ELSE PushAllNew(PushNew(xs, Head(ys)), Tail(ys))

\* // Detect frameworks
PackageFrameworks(frameworks, deps) ==
    LET f1 == PushNewIf(frameworks, TruthyDep(deps, "react"), "React")
        f2 == PushNewIf(f1, TruthyDep(deps, "vue"), "Vue")
        f3 == PushNewIf(f2, TruthyDep(deps, "next"), "Next.js")
        f4 == PushNewIf(f3, TruthyDep(deps, "express"), "Express")
        f5 == PushNewIf(f4, AnyTruthyDep(deps, {"angular", "@angular/core"}), "Angular")
        f6 == PushNewIf(f5, TruthyDep(deps, "svelte"), "Svelte")
        f7 == PushNewIf(f6, TruthyDep(deps, "gatsby"), "Gatsby")
    IN PushNewIf(f7, TruthyDep(deps, "nuxt"), "Nuxt.js")

\* // Detect features from dependencies
PackageFeatures(features, deps) ==
    LET f1 == PushIf(features, AnyTruthyDep(deps, {"passport", "jsonwebtoken", "auth0",
                                                   "firebase-auth"}), "Authentication")
        f2 == PushIf(f1, AnyTruthyDep(deps, {"mongoose", "sequelize", "typeorm", "prisma",
                                             "pg", "mysql", "sqlite", "mongodb"}), "Database")
        f3 == PushIf(f2, AnyTruthyDep(deps, {"express", "fastify", "koa", "hapi", "restify",
                                             "nest", "graphql"}), "API")
        f4 == PushIf(f3, AnyTruthyDep(deps, {"jest", "mocha", "jasmine", "cypress",
                                             "playwright", "vitest", "chai"}), "Testing")
        f5 == PushIf(f4, AnyTruthyDep(deps, {"docker-compose", "kubernetes", "k8s"}),
                     "Containerization")
        f6 == PushIf(f5, AnyTruthyDep(deps, {"multer", "aws-sdk", "@aws-sdk/client-s3",
                                             "firebase-storage", "cloudinary"}),
                     "File Storage")
    IN PushIf(f6, AnyTruthyDep(deps, {"socket.io", "ws", "websocket"}), "Real-time")

\* if (entry.name === 'package.json') { try { ... } catch {} }
PackageJson(st, file) ==
    LET parsed == ParsePackage(file)
    IN IF ~parsed.ok THEN st
       ELSE [st EXCEPT
               !.dependencies = PushAllNew(@, DepKeys(parsed.deps)),
               !.frameworks = PackageFrameworks(@, parsed.deps),
               !.features = PackageFeatures(@, parsed.deps)]

\* text.trim(), for blanks.
RECURSIVE Trim(_)
Trim(text) ==
    IF text = "" THEN ""
    ELSE IF SubSeq(text, 1, 1) = " " THEN Trim(SubSeq(text, 2, Len(text)))
    ELSE IF SubSeq(text, Len(text), Len(text)) = " " THEN Trim(SubSeq(text, 1, Len(text) - 1))
    ELSE text

\* text.split(sep)[0]
BeforeFirst(text, sep) ==
    LET at == {i \in 1..(Len(text) - Len(sep) + 1) : SubSeq(text, i, i + Len(sep) - 1) = sep}
    IN IF at = {} THEN text
       ELSE SubSeq(text, 1, (CHOOSE i \in at : \A j \in at : i <= j) - 1)

\* content.split('\n').map(trim).filter(Boolean).map(name without version)
RECURSIVE Requirements(_)
Requirements(lines) ==
    IF lines = <<>> THEN <<>>
    ELSE (IF Trim(Head(lines)) = "" THEN <<>>
          ELSE <<Trim(BeforeFirst(BeforeFirst(Trim(Head(lines)), "=="), ">="))>>)
         \o Requirements(Tail(lines))

\* reqs.some(r => names.includes(r.toLowerCase()))
SomeReq(reqs, names) == \E i \in DOMAIN reqs : ToLowerCase(reqs[i]) \in names

\* else if (entry.name === 'requirements.txt') { try { ... } catch {} }
RequirementsTxt(st, file) ==
    IF ~file.readable THEN st
    ELSE LET reqs == Requirements(file.content)
             named == SelectSeq(reqs, LAMBDA r : r # "")
             fw1 == PushNewIf(st.frameworks, SomeReq(reqs, {"django"}), "Django")
             fw2 == PushNewIf(fw1, SomeReq(reqs, {"flask"}), "Flask")
             fw3 == PushNewIf(fw2, SomeReq(reqs, {"fastapi"}), "FastAPI")
             ft1 == PushIf(st.features,
                           SomeReq(reqs, {"authlib", "flask-login", "django-auth",
                                          "python-jose", "djangorestframework-simplejwt"}),
                           "Authentication")
             ft2 == PushIf(ft1, SomeReq(reqs, {"sqlalchemy", "django-orm", "pymongo",
                                               "psycopg2", "mysql-connector-python"}),
                           "Database")
             ft3 == PushIf(ft2, SomeReq(reqs, {"django-rest-framework", "flask-restful",
                                               "fastapi", "graphene"}), "API")
             ft4 == PushIf(ft3, SomeReq(reqs, {"pytest", "unittest", "nose", "behave",
                                               "robot"}), "Testing")
         IN [st EXCEPT !.dependencies = PushAllNew(@, named),
                       !.frameworks = fw3,
                       !.features = ft4]

\* else if (entry.name === 'build.gradle' || entry.name === 'pom.xml') ...
JavaBuildFile(st, file) ==
    LET fw1 == PushNewIf(st.frameworks, file.name = "build.gradle", "Gradle")
        fw2 == PushNewIf(fw1, file.name = "pom.xml", "Maven")
        fw3 == PushNewIf(fw2, file.readable /\ Contains(file.content, "org.springframework"),
                         "Spring")
    IN [st EXCEPT !.languages = PushNew(@, "Java"), !.frameworks = fw3]

\* else if (entry.name === 'Gemfile') ...
Gemfile(st, file) ==
    [st EXCEPT !.languages = PushNew(@, "Ruby"),
               !.frameworks = PushNewIf(@, file.readable /\ Contains(file.content, "rails"),
                                        "Rails")]

\* // Check for special files: the else-if chain on entry.name
SpecialFile(st, file) ==
    CASE file.name = "package.json" -> PackageJson(st, file)
      [] file.name = "requirements.txt" -> RequirementsTxt(st, file)
      [] file.name \in {"build.gradle", "pom.xml"} -> JavaBuildFile(st, file)
      [] file.name = "Gemfile" -> Gemfile(st, file)
      [] file.name \in {"Dockerfile", "docker-compose.yml", "docker-compose.yaml"} ->
            [st EXCEPT !.features = Append(@, "Containerization")]
      [] file.name \in {".github/workflows", "Jenkinsfile", ".gitlab-ci.yml"} ->
            [st EXCEPT !.features = Append(@, "CI/CD")]
      [] OTHER -> st

\* } else if (entry.isFile()) { ... }
ScanFileStats(st, file) == SpecialFile(TrackExtension(st, file.name), file)

\* Mutant of ScanProjectResult: the features are returned as accumulated.
ScanProjectResult_NoDedup(st) == st

\* // Deduplicate features; return stats
ScanProjectResult(st) == [st EXCEPT !.features = Dedup(@)]

\* Files met in one scan.
MaxScanned == 2

File(name, readable, content) ==
    [name |-> name, content |-> content, readable |-> readable]

\* The dependency objects of the package.json files: react with a version,
\* with the empty version or absent, express and lodash with a version or
\* absent.
DepMaps ==
    {Spread(Spread(r, e), l) :
        r \in {NoDeps, [d \in {"react"} |-> "^18.2.0"], [d \in {"react"} |-> ""]},
        e \in {NoDeps, [d \in {"express"} |-> "^4.18.0"]},
        l \in {NoDeps, [d \in {"lodash"} |-> "^4.17.0"]}}

DevDepMaps == {NoDeps, [d \in {"jest"} |-> "^29.0.0"]}

PackageText(form, dependencies, devDependencies) ==
    [dependencies |-> dependencies, form |-> form, devDependencies |-> devDependencies]

ReactExpress == Spread([d \in {"react"} |-> "^18.2.0"], [d \in {"express"} |-> "^4.18.0"])

\* A dependency whose name only starts with a table key.
Expressive == [d \in {"expressive"} |-> "^1.0.0"]

\* package.json files: every object above; two that name expressive; one cut
\* short, one holding null and one that cannot be read.
PackageFiles ==
    {File("package.json", TRUE, PackageText("object", deps, dev)) :
        deps \in DepMaps, dev \in DevDepMaps}
    \cup {File("package.json", TRUE, PackageText("object", Expressive, NoDeps)),
          File("package.json", TRUE, PackageText("object", Spread(ReactExpress, Expressive),
                                                 NoDeps)),
          File("package.json", TRUE, PackageText("truncated", ReactExpress, NoDeps)),
          File("package.json", TRUE, PackageText("null", NoDeps, NoDeps)),
          File("package.json", FALSE, PackageText("object", ReactExpress, NoDeps))}

RequirementLines == {"Django==4.2", "flask>=2.0", "Flask-Login==0.6", " pytest ", ""}

\* requirements.txt files of at most two lines, and one that cannot be read.
RequirementsFiles ==
    {File("requirements.txt", TRUE, lines) :
        lines \in UNION {[1..n -> RequirementLines] : n \in 0..2}}
    \cup {File("requirements.txt", FALSE, <<"Django==4.2", " pytest ">>)}

OtherFiles ==
    {File("build.gradle", TRUE, "implementation 'org.springframework.boot'"),
     File("build.gradle", TRUE, "apply plugin: 'java'"),
     File("build.gradle", FALSE, "implementation 'org.springframework.boot'"),
     File("pom.xml", TRUE, "<project/>"),
     File("Gemfile", TRUE, "gem 'rails'"),
     File("Gemfile", FALSE, "gem 'rails'"),
     File("Dockerfile", TRUE, ""),
     File("docker-compose.yml", TRUE, ""),
     File("docker-compose.yaml", FALSE, ""),
     File("Jenkinsfile", TRUE, ""),
     File(".gitlab-ci.yml", TRUE, ""),
     File("index.js", TRUE, ""),
     File("App.TSX", TRUE, ""),
     File("README", TRUE, "")}

ScanFiles == PackageFiles \cup RequirementsFiles \cup OtherFiles

\* A package.json or requirements.txt that cannot be read or parsed.
Unusable(file) ==
    \/ file.name \in {"package.json", "requirements.txt"} /\ ~file.readable
    \/ file.name = "package.json" /\ file.content.form # "object"

\* Directories below one another in a scan.
MaxNesting == 2

\* The directory entries scanDir meets.
ScanDirNames == {".github", "workflows", "node_modules"}

\* An entry of the directory scanDir is reading.
EntryAt(dir, name) == [name |-> name, dir |-> dir]

\* scanDir meets one more regular file.
ScanFile ==
    /\ mode = "scan" /\ steps < MaxScanned
    /\ \E file \in ScanFiles :
          /\ projectStats' = ScanFileStats(projectStats, file)
          /\ ref' = IF Unusable(file) THEN TrackExtension(ref, file.name)
                    ELSE ScanFileStats(ref, file)
          /\ input' = [kind |-> "file", file |-> file]
          /\ contains' = contains \cup {EntryAt(cwd, file.name)}
    /\ steps' = steps + 1
    /\ UNCHANGED <<mode, description, detected, cwd, synthVars, walkVars, moreVars>>

\* scanDir meets a directory: an ignored one is skipped, any other is
\* scanned by a nested call; the stats are not touched.
ScanDirectory ==
    /\ mode = "scan" /\ steps < MaxScanned /\ Len(cwd) < MaxNesting
    /\ \E name \in ScanDirNames :
          /\ cwd' = IF ScanDirIgnores(name) THEN cwd ELSE Append(cwd, name)
          /\ input' = [kind |-> "directory", name |-> name]
          /\ contains' = contains \cup {EntryAt(cwd, name)}
    /\ steps' = steps + 1
    /\ UNCHANGED <<mode, description, detected, projectStats, ref, synthVars, walkVars, moreVars>>

\* The nested call of scanDir has read all its entries and returns.
ScanDirReturns ==
    /\ mode = "scan" /\ cwd # <<>>
    /\ cwd' = SubSeq(cwd, 1, Len(cwd) - 1)
    /\ UNCHANGED <<mode, description, detected, projectStats, ref, input, steps, contains,
                   synthVars, walkVars, moreVars>>

\* scanDir(projectPath) has returned: scanProject deduplicates the features
\* and returns stats.
ScanProjectReturns ==
    /\ mode = "scan" /\ cwd = <<>>
    /\ projectStats' = ScanProjectResult(projectStats)
    /\ ref' = ScanProjectResult(ref)
    /\ mode' = "returned"
    /\ UNCHANGED <<description, detected, input, steps, cwd, contains, synthVars, walkVars, moreVars>>

(***************************************************************************)
(* The detectors (utils/detectors.ts).                                    *)
(***************************************************************************)

\* Detector calls in one run.
MaxCalls == 3

\* Properties every object literal inherits from Object.prototype.
ObjectPrototypeMembers ==
    {"constructor", "toString", "toLocaleString", "valueOf", "hasOwnProperty",
     "isPrototypeOf", "propertyIsEnumerable", "__proto__"}

\* table[key] on an object literal: its own property, else the member it
\* inherits under that name, else undefined ("").
Lookup(table, key) ==
    IF key \in DOMAIN table THEN table[key]
    ELSE IF key \in ObjectPrototypeMembers THEN "Object.prototype." \o key
    ELSE ""

\* const languageMap
LanguageMap ==
    [ext \in {".js", ".jsx", ".ts", ".tsx", ".py", ".java", ".go", ".rb", ".rake", ".php",
              ".cs", ".rs", ".swift", ".kt", ".kts", ".dart"} |->
        CASE ext \in {".js", ".jsx"} -> "JavaScript"
          [] ext \in {".ts", ".tsx"} -> "TypeScript"
          [] ext = ".py" -> "Python"
          [] ext = ".java" -> "Java"
          [] ext = ".go" -> "Go"
          [] ext \in {".rb", ".rake"} -> "Ruby"
          [] ext = ".php" -> "PHP"
          [] ext = ".cs" -> "C#"
          [] ext = ".rs" -> "Rust"
          [] ext = ".swift" -> "Swift"
          [] ext \in {".kt", ".kts"} -> "Kotlin"
          [] ext = ".dart" -> "Dart"]

\* const frameworkMap
FrameworkMap ==
    [dep \in {"react", "vue", "next", "express", "angular", "@angular/core", "svelte",
              "gatsby", "nuxt"} |->
        CASE dep = "react" -> "React"
          [] dep = "vue" -> "Vue"
          [] dep = "next" -> "Next.js"
          [] dep = "express" -> "Express"
          [] dep \in {"angular", "@angular/core"} -> "Angular"
          [] dep = "svelte" -> "Svelte"
          [] dep = "gatsby" -> "Gatsby"
          [] dep = "nuxt" -> "Nuxt.js"]

\* const featureDependencies, in the order of its entries.
FeatureDependencies ==
    <<<<"passport", "Authentication">>, <<"jsonwebtoken", "Authentication">>,
      <<"auth0", "Authentication">>, <<"firebase-auth", "Authentication">>,
      <<"mongoose", "Database">>, <<"sequelize", "Database">>, <<"typeorm", "Database">>,
      <<"prisma", "Database">>, <<"pg", "Database">>, <<"mysql", "Database">>,
      <<"sqlite", "Database">>, <<"mongodb", "Database">>,
      <<"express", "API">>, <<"fastify", "API">>, <<"koa", "API">>, <<"hapi", "API">>,
      <<"restify", "API">>, <<"nest", "API">>, <<"graphql", "API">>,
      <<"jest", "Testing">>, <<"mocha", "Testing">>, <<"jasmine", "Testing">>,
      <<"cypress", "Testing">>, <<"playwright", "Testing">>, <<"vitest", "Testing">>,
      <<"chai", "Testing">>,
      <<"docker-compose", "Containerization">>, <<"kubernetes", "Containerization">>,
      <<"k8s", "Containerization">>,
      <<"multer", "File Storage">>, <<"aws-sdk", "File Storage">>,
      <<"@aws-sdk/client-s3", "File Storage">>, <<"firebase-storage", "File Storage">>,
      <<"cloudinary", "File Storage">>,
      <<"socket.io", "Real-time">>, <<"ws", "Real-time">>, <<"websocket", "Real-time">>>>

\* detectLanguageFromExtension(ext, stats)
DetectLanguageFromExtension(ext, st) ==
    LET language == Lookup(LanguageMap, ext)
    IN [st EXCEPT !.languages = PushNewIf(@, language # "", language)]

\* The loop of detectFrameworksFromDependencies over the keys still to do.
RECURSIVE FrameworksLoop(_, _)
FrameworksLoop(frameworks, keys) ==
    IF keys = <<>> THEN frameworks
    ELSE LET framework == Lookup(FrameworkMap, Head(keys))
         IN FrameworksLoop(PushNewIf(frameworks, framework # "", framework), Tail(keys))

\* detectFrameworksFromDependencies(deps, stats)
DetectFrameworksFromDependencies(deps, st) ==
    [st EXCEPT !.frameworks = FrameworksLoop(@, DepKeys(deps))]

\* dep in deps: an own property of deps or one it inherits.
In(dep, deps) == dep \in DOMAIN deps \/ dep \in ObjectPrototypeMembers

\* The loop of detectFeaturesFromDependencies over the entries still to do.
RECURSIVE FeaturesLoop(_, _, _)
FeaturesLoop(features, deps, entries) ==
    IF entries = <<>> THEN features
    ELSE FeaturesLoop(PushNewIf(features, In(Head(entries)[1], deps), Head(entries)[2]),
                      deps, Tail(entries))

\* detectFeaturesFromDependencies(deps, stats)
DetectFeaturesFromDependencies(deps, st) ==
    [st EXCEPT !.features = FeaturesLoop(@, deps, FeatureDependencies)]

\* The extensions and dependency objects the detectors are called with.
DetectorExtensions == {".js", ".jsx", ".py", ".xyz", "", "constructor"}
DetectorDeps == DepMaps \cup {[d \in {"constructor"} |-> "^1.0.0"], Expressive}

Call(fn, arg) == [kind |-> fn, arg |-> arg]

CallDetectLanguage ==
    /\ mode = "detect" /\ steps < MaxCalls
    /\ \E ext \in DetectorExtensions :
          /\ projectStats' = DetectLanguageFromExtension(ext, projectStats)
          /\ input' = Call("detectLanguageFromExtension", ext)
    /\ steps' = steps + 1
    /\ UNCHANGED <<mode, description, detected, ref, cwd, contains, synthVars, walkVars, moreVars>>

CallDetectFrameworks ==
    /\ mode = "detect" /\ steps < MaxCalls
    /\ \E deps \in DetectorDeps :
          /\ projectStats' = DetectFrameworksFromDependencies(deps, projectStats)
          /\ input' = Call("detectFrameworksFromDependencies", deps)
    /\ steps' = steps + 1
    /\ UNCHANGED <<mode, description, detected, ref, cwd, contains, synthVars, walkVars, moreVars>>

CallDetectFeatures ==
    /\ mode = "detect" /\ steps < MaxCalls
    /\ \E deps \in DetectorDeps :
          /\ projectStats' = DetectFeaturesFromDependencies(deps, projectStats)
          /\ input' = Call("detectFeaturesFromDependencies", deps)
    /\ steps' = steps + 1
    /\ UNCHANGED <<mode, description, detected, ref, cwd, contains, synthVars, walkVars, moreVars>>

StatsInit ==
    /\ mode \in {"classify", "scan", "detect"}
    /\ description \in (IF mode = "classify" THEN Descriptions ELSE {""})
    /\ detected = EmptyTechStack
    /\ projectStats = EmptyStats
    /\ ref = EmptyStats
    /\ input = NoInput
    /\ steps = 0
    /\ cwd = <<>>
    /\ contains = {}
    /\ SynthIdle
    /\ WalkIdle
    /\ RunIdle /\ RulesIdle /\ LookupIdle

StatsNext ==
    \/ AnalyzeTechStack
    \/ ScanFile
    \/ ScanDirectory
    \/ ScanDirReturns
    \/ ScanProjectReturns
    \/ CallDetectLanguage
    \/ CallDetectFrameworks
    \/ CallDetectFeatures

StatsSpec == StatsInit /\ [][StatsNext]_vars

(***************************************************************************)
(* Claims about the configuration synthesis (SynthSpec).                   *)
(***************************************************************************)

\* The tool map of a configuration, empty when the key is missing.
ToolMap(config) == IF config.hasServers THEN config.mcpServers ELSE EmptyMap

\* C1: every tool name that was a key of the existing configuration is a
\* key of the configuration generateEnhancedMCPConfig returns, with exactly
\* the entry it had before, whatever discovery returned and whatever value
\* the existing entry holds.
C1_ExistingEntriesKept ==
    op = "enhance" =>
        \A n \in Keys(existingConfig) :
            /\ n \in Keys(newMcpConfig)
            /\ newMcpConfig.mcpServers[n] = existingConfig.mcpServers[n]

\* C2: findNewTools(old, new) is the set of keys of new's tool map that are
\* not keys of old's tool map, whatever the entries hold; on the output and
\* the input of generateEnhancedMCPConfig it is the set of discovered tool
\* names that were not keys of the input.
C2_FindNewToolsIsKeyDifference ==
    /\ \A old \in InitialConfigs, new \in InitialConfigs :
          FindNewTools(old, new) = DOMAIN ToolMap(new) \ DOMAIN ToolMap(old)
    /\ (op = "enhance" /\ result = "ok") =>
          /\ addedTools = DOMAIN ToolMap(newMcpConfig) \ DOMAIN ToolMap(existingConfig)
          /\ addedTools = DOMAIN discoveredServers \ DOMAIN ToolMap(existingConfig)

\* C2 witness: an enhancement that added a tool, while another discovered
\* tool was already a key of the input and had its (null) entry replaced.
C2_Witness ==
    /\ op = "enhance" /\ result = "ok"
    /\ addedTools # {}
    /\ \E n \in DOMAIN discoveredServers \cap Keys(existingConfig) :
          existingConfig.mcpServers[n] # newMcpConfig.mcpServers[n]

\* C3: when the server-listing request errors during enhanceProject, the
\* configuration written back holds exactly the tools of the existing
\* configuration, each unchanged.
C3_EnhanceLookupFailurePassthrough ==
    (op = "enhance" /\ lookup = "throws" /\ result = "ok") =>
        /\ mcpJson.kind = "json"
        /\ ToolMap(mcpJson.config) = ToolMap(existingConfig)

\* C4: when the server-listing request throws during analyzeProject and no
\* file-system call fails, the operation succeeds and the mcp.json it
\* writes holds at least brave-search and sequential-thinking.
C4_AnalyzeFallbackBaseline ==
    (op = "analyze" /\ lookup = "throws" /\ fsFailed = "none") =>
        /\ result = "ok"
        /\ mcpJson.kind = "json"
        /\ {"brave-search", "sequential-thinking"} \subseteq Keys(mcpJson.config)

C4_Witness ==
    op = "analyze" /\ lookup = "throws" /\ fsFailed = "none" /\ result = "ok"

\* C5: whichever way the lookup fails in analyzeProject or planProject (the
\* listing request errors, the listing is not an array, a README request
\* errors), the generated configuration is the fixed fallback with the two
\* baseline tools.
C5_EveryLookupFailureFallsBack ==
    (op \in {"analyze", "plan"} /\ lookup \in {"throws", "notArray", "readmeThrows"}) =>
        newMcpConfig = AnalyzerGenerateMCPConfig(FallbackServers)

\* C13: when reading a directory of the project fails with a non-permission
\* error during the scan of analyzeProject or enhanceProject, the text
\* returned to the caller is an error message, not a success report.
C13_ScanReadFailureReported ==
    (op \in {"analyze", "enhance"} /\ fsFailed = "readdir") =>
        (result = "error" /\ message = ErrorPrefix(op))

\* C14: analyzeProject, planProject and enhanceProject never reject: every
\* call resolves to a text, whatever call failed, and the text of a call
\* that did not succeed begins with the Error ... prefix of its entry point.
C14_EntryPointsNeverReject ==
    op # "none" =>
        /\ result \in {"ok", "error"}
        /\ message # "none"
        /\ result = "error" => message = ErrorPrefix(op)
        /\ result = "ok" => message = SuccessHeader(op)
        /\ fsFailed \in {"access", "writeMcp"} => result = "error"

\* C14 witness: a call of each entry point whose configuration write failed
\* has returned its error text; here for planProject.
C14_Witness ==
    /\ op = "plan" /\ fsFailed = "writeMcp"
    /\ result = "error" /\ message = "Error planning project:"

(***************************************************************************)
(* Claims about the walkers (WalkSpec).                                    *)
(***************************************************************************)

DirIds == 1..Len(dirs)

RECURSIVE TotalReads(_)
TotalReads(n) == IF n = 0 THEN 0 ELSE dirs[n].reads + TotalReads(n - 1)

\* The directory names the walkers are said to skip.
IgnoredNames == {"node_modules", ".git", "venv", "__pycache__", ".next", "dist", "build"}

\* C6, the part both statements share: scanProjectDirectory reads no
\* directory and counts no file at depth >= MAX_SCAN_DEPTH, no directory is
\* read twice, and a root that holds only one subdirectory (itself without
\* subdirectories), started at depth 1, causes exactly two directory reads.
C6_DepthLimit ==
    /\ \A d \in DirIds :
          /\ dirs[d].depth >= MAX_SCAN_DEPTH => (dirs[d].reads = 0 /\ dirs[d].counted = 0)
          /\ dirs[d].calls <= 1 /\ dirs[d].reads <= 1
    /\ (/\ wstate \in {"done", "thrown"}
        /\ dirs[1].depth = 1
        /\ dirs[1].listing = <<DirEntry("src")>>
        /\ Len(dirs) = 2) => TotalReads(Len(dirs)) = 2

\* C6 as claimed: scanProjectDirectory never reads a directory nor counts a
\* file at depth >= MAX_SCAN_DEPTH, and every non-ignored directory below
\* the limit that the walk reaches is read exactly once.
C6_ReachedBelowLimitReadOnce ==
    walker = "scanProjectDirectory" =>
        /\ C6_DepthLimit
        /\ \A d \in DirIds :
              (dirs[d].calls > 0 /\ dirs[d].depth < MAX_SCAN_DEPTH
                  /\ dirs[d].name \notin IgnoredNames) => dirs[d].reads = 1

\* C6 as amended: the same, for the directories reached with a fileCount
\* argument below MAX_FILES; one reached with fileCount >= MAX_FILES is not
\* read.
C6_ReachedBelowBothLimitsReadOnce ==
    walker = "scanProjectDirectory" =>
        /\ C6_DepthLimit
        /\ \A d \in DirIds :
              dirs[d].calls > 0 =>
                 /\ (dirs[d].depth < MAX_SCAN_DEPTH /\ dirs[d].argCount < MAX_FILES)
                        => dirs[d].reads = 1
                 /\ dirs[d].argCount >= MAX_FILES => dirs[d].reads = 0

\* C6 witness: a finished walk that read a directory holding files and
\* reached, without reading it, a directory at depth MAX_SCAN_DEPTH.
C6_Witness ==
    /\ walker = "scanProjectDirectory" /\ wstate = "done"
    /\ \E d \in DirIds :
          dirs[d].depth >= MAX_SCAN_DEPTH /\ dirs[d].calls = 1 /\ dirs[d].reads = 0
    /\ \E d \in DirIds : dirs[d].reads = 1 /\ dirs[d].counted > 0

\* C7: once the files visited in the whole walk of scanProjectDirectory
\* have reached MAX_FILES, no further directory is read.
C7_GlobalFileLimit ==
    walker = "scanProjectDirectory" =>
        \A d \in DirIds : dirs[d].reads > 0 => dirs[d].seenAtRead < MAX_FILES

\* C8: the walk of scanProject reads no directory at depth >= 10 below the
\* project root and reads no directory once 10000 files have been seen.
C8_ScanProjectBounded ==
    walker = "scanProject" =>
        \A d \in DirIds :
            dirs[d].reads > 0 =>
                (dirs[d].depth < MAX_SCAN_DEPTH /\ dirs[d].seenAtRead < MAX_FILES)

C10_ConfigGovernsWalk ==
    \A d \in DirIds :
        /\ (dirs[d].parent # 0 /\ dirs[d].name \in ConfigIgnoredDirectories)
              => dirs[d].reads = 0
        /\ dirs[d].reads > 0 =>
              (dirs[d].depth < ConfigMaxDepth /\ dirs[d].argCount < ConfigMaxFiles)

\* Files of a listing whose lower-cased extension is ext.
RECURSIVE FilesOfExt(_, _)
FilesOfExt(l, ext) ==
    IF l = <<>> THEN 0
    ELSE (IF l[1].kind = "file" /\ LowerExtname[l[1].name] = ext THEN l[1].n ELSE 0)
         + FilesOfExt(Tail(l), ext)

\* Files with that extension in the listings of the directories read among
\* the first n met.
RECURSIVE VisitedOfExt(_, _)
VisitedOfExt(n, ext) ==
    IF n = 0 THEN 0
    ELSE (IF dirs[n].reads > 0 THEN FilesOfExt(dirs[n].listing, ext) ELSE 0)
         + VisitedOfExt(n - 1, ext)

\* fileTypes holds, for each extension, the number of visited files with it,
\* and no other key.
FileTypesMatchVisited ==
    /\ DOMAIN fileTypes \subseteq {".js", ".ts"}
    /\ \A ext \in {".js", ".ts"} :
          IF VisitedOfExt(Len(dirs), ext) = 0 THEN ext \notin DOMAIN fileTypes
          ELSE ext \in DOMAIN fileTypes /\ fileTypes[ext] = VisitedOfExt(Len(dirs), ext)

\* C11: after scanProjectDirectory, fileTypes[ext] is the number of visited
\* regular files whose lower-cased extension is ext, for every ext;
\* directories and files without extension add no key (a directory holding
\* file.js, Dockerfile and an empty subdirectory src yields exactly {.js: 1}).
C11_FileTypesCountVisitedFiles ==
    (walker = "scanProjectDirectory" /\ wstate = "done") =>
        /\ FileTypesMatchVisited
        /\ (/\ dirs[1].listing = <<FileEntry("file.js", 1), FileEntry("Dockerfile", 1),
                                   DirEntry("src")>>
            /\ Len(dirs) = 2 /\ dirs[2].reads = 1 /\ dirs[2].listing = <<>>)
           => fileTypes = [ext \in {".js"} |-> 1]

\* C11 witness: a finished walk that visited .js files, upper-case .TS files
\* and a file without extension, and read an empty subdirectory.
C11_Witness ==
    /\ walker = "scanProjectDirectory" /\ wstate = "done"
    /\ DOMAIN fileTypes = {".js", ".ts"}
    /\ \E d \in DirIds : \E i \in DOMAIN dirs[d].listing :
          dirs[d].reads = 1 /\ dirs[d].listing[i].name = "Dockerfile"
    /\ \E d \in DirIds :
          dirs[d].parent # 0 /\ dirs[d].reads = 1 /\ dirs[d].err = "none"
          /\ dirs[d].listing = <<>>

\* C12: in scanProjectDirectory a directory whose read fails with EACCES
\* contributes nothing and the walk goes on with the caller's next entry,
\* the counts made so far kept; the walk rejects exactly when a read failed
\* with another error; a walk that completes has counted every file of the
\* directories it could read.
C12_PermissionErrorsSkipped ==
    /\ [](walker = "scanProjectDirectory" =>
            /\ wstate = "thrown" <=> \E d \in DirIds : dirs[d].err \notin {"none", "EACCES"}
            /\ \A d \in DirIds :
                  dirs[d].err = "EACCES" =>
                      /\ dirs[d].counted = 0
                      /\ \A c \in DirIds : dirs[c].parent # d
            /\ wstate = "done" => FileTypesMatchVisited)
    /\ [][(/\ walker = "scanProjectDirectory"
           /\ \E d \in DirIds : dirs[d].err = "none" /\ dirs'[d].err = "EACCES")
          => /\ fileTypes' = fileTypes
             /\ seen' = seen
             /\ wstate' # "thrown"
             /\ Len(stack') = Len(stack)
             /\ \A i \in 1..(Len(stack) - 1) : stack'[i] = stack[i]
             /\ stack # <<>> =>
                   /\ stack'[Len(stack)].todo = Tail(Top.todo)
                   /\ stack'[Len(stack)].fileCount = Top.fileCount]_vars

\* C12 witness: a finished walk in which a subdirectory could not be read for
\* lack of permission, files were counted before it and a sibling listed
\* after it was read and its files counted.
C12_Witness ==
    /\ walker = "scanProjectDirectory" /\ wstate = "done"
    /\ \E d, e \in DirIds :
          /\ dirs[d].err = "EACCES" /\ dirs[d].parent # 0
          /\ dirs[e].parent = dirs[d].parent /\ e > d
          /\ dirs[e].reads = 1 /\ dirs[e].counted > 0
          /\ dirs[dirs[d].parent].counted > 0

(***************************************************************************)
(* Claims about the classifiers (StatsSpec).                              *)
(***************************************************************************)

NoDuplicates(xs) == \A i, j \in DOMAIN xs : i # j => xs[i] # xs[j]

\* C15: for every description, the languages analyzeTechStack returns never
\* contain both TypeScript and JavaScript.
C15_NeverTypeScriptAndJavaScript ==
    mode = "classified" =>
        ~(Includes(detected.languages, "TypeScript")
          /\ Includes(detected.languages, "JavaScript"))

\* C16: a description that contains "typescript" or "ts" (in any case) gets
\* TypeScript and not JavaScript; a description that contains a JavaScript
\* keyword and neither "typescript" nor "ts" gets JavaScript.
C16_TypeScriptKeywordSuppressesJavaScript ==
    mode = "classified" =>
        LET low == ToLowerCase(description)
            ts == Contains(low, "typescript") \/ Contains(low, "ts")
            js == \E k \in {"javascript", "js", "node.js", "express", "react", "vue"} :
                      Contains(low, k)
        IN /\ ts => /\ Includes(detected.languages, "TypeScript")
                    /\ ~Includes(detected.languages, "JavaScript")
           /\ (js /\ ~ts) => Includes(detected.languages, "JavaScript")

\* C16 witness: a classified description that holds a JavaScript keyword and,
\* inside another word, the letters ts, and got TypeScript without JavaScript.
C16_Witness ==
    /\ mode = "classified"
    /\ Contains(ToLowerCase(description), "js")
    /\ Contains(ToLowerCase(description), "ts")
    /\ ~Contains(ToLowerCase(description), "typescript")
    /\ detected.languages = <<"TypeScript">>

\* The dependency names the framework and feature tables know.
RecognisedDeps ==
    DOMAIN FrameworkMap \cup {FeatureDependencies[i][1] : i \in DOMAIN FeatureDependencies}

\* C17: for every dependency map, in the package.json branch of scanProject
\* and in the two dependency detectors alike: a map with react yields the
\* framework React, and adds no feature when react is its only recognised
\* dependency; a map with express yields the framework Express and the
\* feature API.
C17_ReactAndExpressRecognised ==
    [][/\ (mode = "scan" /\ steps' = steps + 1 /\ input'.kind = "file"
           /\ input'.file.name = "package.json"
           /\ ~Unusable(input'.file)) =>
              LET deps == Spread(input'.file.content.dependencies,
                                 input'.file.content.devDependencies)
              IN /\ "react" \in DOMAIN deps => Includes(projectStats'.frameworks, "React")
                 /\ DOMAIN deps \cap RecognisedDeps = {"react"} =>
                        projectStats'.features = projectStats.features
                 /\ "express" \in DOMAIN deps =>
                        /\ Includes(projectStats'.frameworks, "Express")
                        /\ Includes(projectStats'.features, "API")
       /\ (mode = "detect" /\ steps' = steps + 1
           /\ input'.kind = "detectFrameworksFromDependencies") =>
              /\ "react" \in DOMAIN input'.arg => Includes(projectStats'.frameworks, "React")
              /\ "express" \in DOMAIN input'.arg =>
                     Includes(projectStats'.frameworks, "Express")
       /\ (mode = "detect" /\ steps' = steps + 1
           /\ input'.kind = "detectFeaturesFromDependencies") =>
              /\ DOMAIN input'.arg \cap RecognisedDeps = {"react"} =>
                     projectStats'.features = projectStats.features
              /\ "express" \in DOMAIN input'.arg => Includes(projectStats'.features, "API")
      ]_vars

\* C18: after any sequence of detector calls from empty stats no list holds
\* a duplicate and calling a detector again with the same input changes
\* nothing; an input that is not in the detector's table leaves its list
\* unchanged and an extension in the language table appends its one label
\* unless the list has it.
C18_DetectorsIdempotent ==
    /\ [](mode = "detect" =>
            /\ NoDuplicates(projectStats.languages)
            /\ NoDuplicates(projectStats.frameworks)
            /\ NoDuplicates(projectStats.features)
            /\ \A ext \in DetectorExtensions :
                  LET once == DetectLanguageFromExtension(ext, projectStats)
                  IN DetectLanguageFromExtension(ext, once) = once
            /\ \A deps \in DetectorDeps :
                  LET fw == DetectFrameworksFromDependencies(deps, projectStats)
                      ft == DetectFeaturesFromDependencies(deps, projectStats)
                  IN /\ DetectFrameworksFromDependencies(deps, fw) = fw
                     /\ DetectFeaturesFromDependencies(deps, ft) = ft)
    /\ [][(mode = "detect" /\ steps' = steps + 1) =>
            /\ input'.kind = "detectLanguageFromExtension" =>
                  projectStats'.languages =
                      IF input'.arg \in DOMAIN LanguageMap
                      THEN PushNew(projectStats.languages, LanguageMap[input'.arg])
                      ELSE projectStats.languages
            /\ (input'.kind = "detectFrameworksFromDependencies"
                /\ DOMAIN input'.arg \cap DOMAIN FrameworkMap = {}) =>
                  projectStats'.frameworks = projectStats.frameworks
            /\ (input'.kind = "detectFeaturesFromDependencies"
                /\ DOMAIN input'.arg \cap RecognisedDeps = {}) =>
                  projectStats'.features = projectStats.features
         ]_vars

\* C19: the stats scanProject returns hold no duplicate in features,
\* languages, frameworks or dependencies, whatever files were met, several
\* manifests signalling the same feature included.
C19_ReturnedStatsHaveNoDuplicates ==
    mode = "returned" =>
        /\ NoDuplicates(projectStats.features)
        /\ NoDuplicates(projectStats.languages)
        /\ NoDuplicates(projectStats.frameworks)
        /\ NoDuplicates(projectStats.dependencies)

\* C19 witness: scanProject has returned after a package.json with jest and
\* a requirements.txt with pytest, which both signal Testing.
C19_Witness ==
    /\ mode = "returned"
    /\ Includes(projectStats.dependencies, "jest")
    /\ Includes(projectStats.dependencies, "pytest")
    /\ projectStats.features = <<"Testing">>

\* C20: a package.json or requirements.txt that cannot be read or parsed
\* adds no dependency, framework or feature and the scan goes on: at every
\* point the stats equal those of the same files with the content of the
\* unusable manifests left out.
C20_UnusableManifestContributesNothing ==
    /\ [](mode \in {"scan", "returned"} => projectStats = ref)
    /\ [][(mode = "scan" /\ steps' = steps + 1 /\ input'.kind = "file"
           /\ Unusable(input'.file)) =>
            /\ projectStats'.dependencies = projectStats.dependencies
            /\ projectStats'.frameworks = projectStats.frameworks
            /\ projectStats'.features = projectStats.features
            /\ mode' = "scan"
         ]_vars

\* C20 witness: scanProject has returned after a package.json cut short that
\* names react and express, met after another manifest that contributed.
C20_Witness ==
    /\ mode = "returned" /\ steps >= 2
    /\ input.kind = "file" /\ input.file.name = "package.json"
    /\ input.file.content.form = "truncated"
    /\ "react" \in DOMAIN input.file.content.dependencies
    /\ projectStats.dependencies # <<>>
    /\ ~Includes(projectStats.dependencies, "react")
    /\ projectStats.frameworks # <<>>

\* The labels the framework table gives the names of a dependency object.
FrameworksOf(deps) == {FrameworkMap[d] : d \in DOMAIN deps \cap DOMAIN FrameworkMap}

\* The labels the feature table gives the names of a dependency object.
FeaturesOf(deps) ==
    {FeatureDependencies[i][2] :
        i \in {j \in DOMAIN FeatureDependencies : FeatureDependencies[j][1] \in DOMAIN deps}}

Elements(xs) == {xs[i] : i \in DOMAIN xs}

\* The requirements.txt tables of scanDir, keyed by lower-cased bare name.
RequirementLabels(kind, name) ==
    IF kind = "framework"
    THEN CASE name = "django" -> {"Django"}
           [] name = "flask" -> {"Flask"}
           [] name = "fastapi" -> {"FastAPI"}
           [] OTHER -> {}
    ELSE (IF name \in {"authlib", "flask-login", "django-auth", "python-jose",
                       "djangorestframework-simplejwt"} THEN {"Authentication"} ELSE {})
         \cup (IF name \in {"sqlalchemy", "django-orm", "pymongo", "psycopg2",
                             "mysql-connector-python"} THEN {"Database"} ELSE {})
         \cup (IF name \in {"django-rest-framework", "flask-restful", "fastapi", "graphene"}
               THEN {"API"} ELSE {})
         \cup (IF name \in {"pytest", "unittest", "nose", "behave", "robot"}
               THEN {"Testing"} ELSE {})

\* C21: manifest lookup is by exact membership: a package.json step, and a
\* call of detectFrameworksFromDependencies, adds exactly the labels of the
\* dependency names that are table keys, every one of them and no other; a
\* requirements.txt step adds exactly the labels of the entries whose whole
\* bare name, lower-cased, is a table entry.
C21_ExactMembership ==
    [][/\ (mode = "scan" /\ steps' = steps + 1 /\ input'.kind = "file"
           /\ input'.file.name = "package.json"
           /\ ~Unusable(input'.file)) =>
              LET deps == Spread(input'.file.content.dependencies,
                                 input'.file.content.devDependencies)
              IN /\ Elements(projectStats'.frameworks) =
                        Elements(projectStats.frameworks) \cup FrameworksOf(deps)
                 /\ Elements(projectStats'.features) =
                        Elements(projectStats.features) \cup FeaturesOf(deps)
       /\ (mode = "detect" /\ steps' = steps + 1
           /\ input'.kind = "detectFrameworksFromDependencies") =>
              Elements(projectStats'.frameworks) =
                  Elements(projectStats.frameworks) \cup FrameworksOf(input'.arg)
       /\ (mode = "scan" /\ steps' = steps + 1 /\ input'.kind = "file"
           /\ input'.file.name = "requirements.txt"
           /\ ~Unusable(input'.file)) =>
              LET reqs == Requirements(input'.file.content)
                  names == {ToLowerCase(reqs[i]) : i \in DOMAIN reqs}
              IN /\ Elements(projectStats'.frameworks) =
                        Elements(projectStats.frameworks)
                        \cup UNION {RequirementLabels("framework", n) : n \in names}
                 /\ Elements(projectStats'.features) =
                        Elements(projectStats.features)
                        \cup UNION {RequirementLabels("feature", n) : n \in names}
      ]_vars

\* C22: a scanned tree that contains .github/workflows, a Jenkinsfile or a
\* .gitlab-ci.yml yields the feature CI/CD from scanProject, and one that
\* contains Dockerfile, docker-compose.yml or docker-compose.yaml yields
\* Containerization, whether or not the file can be read.
C22_CiAndContainerDescriptors ==
    mode = "returned" =>
        /\ (\E en \in contains :
               \/ en.name \in {"Jenkinsfile", ".gitlab-ci.yml"}
               \/ en = EntryAt(<<".github">>, "workflows"))
              => Includes(projectStats.features, "CI/CD")
        /\ (\E en \in contains :
               en.name \in {"Dockerfile", "docker-compose.yml", "docker-compose.yaml"})
              => Includes(projectStats.features, "Containerization")

\* C30: the detectors and the detection inlined in scanDir agree: a call of
\* detectLanguageFromExtension leaves the languages the extension chain of
\* scanDir would leave, and for every dependency object, empty versions
\* included, the two dependency detectors leave the same set of frameworks
\* and features as the package.json branch of scanDir, whichever of the two
\* runs.
C30_DetectorsAgreeWithScan ==
    [][/\ (mode = "detect" /\ steps' = steps + 1) =>
              /\ input'.kind = "detectLanguageFromExtension" =>
                     LET lang == LanguageOfExt(input'.arg)
                     IN projectStats'.languages =
                            PushNewIf(projectStats.languages, lang # "", lang)
              /\ input'.kind = "detectFrameworksFromDependencies" =>
                     Elements(projectStats'.frameworks) =
                         Elements(PackageFrameworks(projectStats.frameworks, input'.arg))
              /\ input'.kind = "detectFeaturesFromDependencies" =>
                     Elements(projectStats'.features) =
                         Elements(PackageFeatures(projectStats.features, input'.arg))
       /\ (mode = "scan" /\ steps' = steps + 1 /\ input'.kind = "file"
           /\ input'.file.name = "package.json"
           /\ ~Unusable(input'.file)) =>
              LET deps == Spread(input'.file.content.dependencies,
                                 input'.file.content.devDependencies)
              IN /\ Elements(projectStats'.frameworks) =
                        Elements(DetectFrameworksFromDependencies(deps, projectStats).frameworks)
                 /\ Elements(projectStats'.features) =
                        Elements(DetectFeaturesFromDependencies(deps, projectStats).features)
      ]_vars

(***************************************************************************)
(* Further claims about the configuration synthesis (SynthSpec).           *)
(***************************************************************************)

\* C27: generateEnhancedMCPConfig leaves the existingConfig object as it
\* was loaded, so the tools enhanceProject reports as added are the names
\* of the new configuration that the loaded one did not hold.
C27_ExistingConfigUntouched ==
    [][op' = "enhance" =>
          /\ existingConfig' = LoadExistingConfig(mcpJson)
          /\ result' = "ok" =>
                addedTools' = Keys(newMcpConfig') \ Keys(LoadExistingConfig(mcpJson))
      ]_vars

\* C27 witness: enhanceProject succeeded on a configuration that held a
\* tool, added another one, and reports exactly the one it added.
C27_Witness ==
    /\ op = "enhance" /\ result = "ok"
    /\ Keys(existingConfig) = {"custom-tool"}
    /\ addedTools # {}
    /\ Keys(newMcpConfig) = Keys(existingConfig) \cup addedTools

(***************************************************************************)
(* One invocation from the request to the reply: the CallTool handler of   *)
(* the protocol server, handleCli, and the steps of the entry point they   *)
(* call.                                                                   *)
(***************************************************************************)

\* typeof of the value an argument field holds.
ArgTypes == {"string", "number"}

ArgFields == {"projectPath", "projectDescription", "newRequirements"}

\* The tools of the server, and a name that is none of them.
ToolNames == {"analyze_project", "plan_project", "enhance_project", "delete_project"}

\* request.params.arguments when it is an object: some fields, each with a
\* value of some type.
ArgObjects == UNION {[fs -> ArgTypes] : fs \in SUBSET ArgFields}

\* A tools/call request; hasArgs is FALSE when arguments is absent.
ToolCall(name, hasArgs, args) ==
    [via |-> "protocol", name |-> name, args |-> args, hasArgs |-> hasArgs]

ToolCalls ==
    {ToolCall(n, TRUE, a) : n \in ToolNames, a \in ArgObjects}
    \cup {ToolCall(n, FALSE, EmptyMap) : n \in ToolNames}

\* Words on the command line after the script path; "" as a command stands
\* for no command at all.
Commands == {"", "analyze", "plan", "enhance", "serve", "--help", "deploy"}
CliWords == {"./app", ""}

CommandLine(command, cmdArgs) == [via |-> "cli", command |-> command, cmdArgs |-> cmdArgs]

CommandLines ==
    {CommandLine(c, a) : c \in Commands, a \in UNION {[1..n -> CliWords] : n \in 0..2}}

Requests == ToolCalls \cup CommandLines

\* inputSchema.required of each tool.
Required(name) ==
    CASE name = "analyze_project" -> {"projectPath"}
      [] name = "plan_project" -> {"projectDescription", "projectPath"}
      [] name = "enhance_project" -> {"projectPath", "newRequirements"}
      [] OTHER -> {}

\* "f" in args && typeof args.f === "string"
StringField(args, f) == f \in DOMAIN args /\ args[f] = "string"

\* Mutant of ValidArguments: a field passes when it is there, whatever its
\* type.
ValidArguments_PresenceOnly(name, args) ==
    CASE name = "analyze_project" -> "projectPath" \in DOMAIN args
      [] name = "plan_project" ->
            "projectDescription" \in DOMAIN args /\ "projectPath" \in DOMAIN args
      [] name = "enhance_project" ->
            "projectPath" \in DOMAIN args /\ "newRequirements" \in DOMAIN args

\* The argument check at the head of each case of the CallTool handler,
\* negated: the arguments the case goes on with.
ValidArguments(name, args) ==
    CASE name = "analyze_project" -> StringField(args, "projectPath")
      [] name = "plan_project" ->
            StringField(args, "projectDescription") /\ StringField(args, "projectPath")
      [] name = "enhance_project" ->
            StringField(args, "projectPath") /\ StringField(args, "newRequirements")

EntryOfTool(name) ==
    CASE name = "analyze_project" -> "analyze"
      [] name = "plan_project" -> "plan"
      [] name = "enhance_project" -> "enhance"

\* return { content: [{ type: "text", text }], isError }
ToolReply(isError, text) == [kind |-> "tool", text |-> text, isError |-> isError]

\* handleCli returns without a call of process.exit.
NoExit == -1

\* What the command line printed, in order, and its process.exit code
\* (NoExit when handleCli returns without exiting).
CliReply(printed, exit) == [kind |-> "cli", printed |-> printed, exit |-> exit]

\* cmdArgs[i], "" when there is none.
CmdArg(cmdArgs, i) == IF i \in DOMAIN cmdArgs THEN cmdArgs[i] ELSE ""

\* The positional arguments each command tests before it calls its entry
\* point.
Positionals(command) == IF command = "analyze" THEN 1 ELSE 2

\* The CallTool request handler up to the call of the entry point.
CallTool ==
    /\ request.via = "protocol" /\ invoked = "none" /\ reply = NoReply
    /\ IF ~request.hasArgs
       THEN /\ reply' = ToolReply(TRUE, "Error: No arguments provided")
            /\ UNCHANGED <<invoked, pc>>
       ELSE IF request.name \notin {"analyze_project", "plan_project", "enhance_project"}
       THEN /\ reply' = ToolReply(TRUE, "Unknown tool: " \o request.name)
            /\ UNCHANGED <<invoked, pc>>
       ELSE IF ~ValidArguments(request.name, request.args)
       THEN /\ reply' = ToolReply(TRUE, "Error: Invalid arguments for " \o request.name
                                            \o " tool")
            /\ UNCHANGED <<invoked, pc>>
       ELSE /\ invoked' = EntryOfTool(request.name)
            /\ pc' = 1
            /\ UNCHANGED reply
    /\ UNCHANGED <<request, runStack, failures, written, discoveryCalls, servers, mcpConfig,
                   returned, synthVars, walkVars, statsVars, rulesVars, lookupVars>>

\* handleCli(args) up to the call of the entry point.
HandleCli ==
    /\ request.via = "cli" /\ invoked = "none" /\ reply = NoReply
    /\ LET command == request.command
           missing == \E i \in 1..Positionals(command) : CmdArg(request.cmdArgs, i) = ""
       IN CASE command = "" ->
                 /\ reply' = CliReply(<<"usage">>, 0)
                 /\ UNCHANGED <<invoked, pc>>
            [] command \in {"analyze", "plan", "enhance"} /\ missing ->
                 /\ reply' = CliReply(<<"Error: arguments are required", "usage">>, 1)
                 /\ UNCHANGED <<invoked, pc>>
            [] command \in {"analyze", "plan", "enhance"} /\ ~missing ->
                 /\ invoked' = command
                 /\ pc' = 1
                 /\ UNCHANGED reply
            [] command = "serve" ->
                 /\ reply' = CliReply(<<"Starting MCP server for Cursor...">>, NoExit)
                 /\ UNCHANGED <<invoked, pc>>
            [] command = "--help" ->
                 /\ reply' = CliReply(<<"usage">>, 0)
                 /\ UNCHANGED <<invoked, pc>>
            [] OTHER ->
                 /\ reply' = CliReply(<<"Error: Unknown command", "usage">>, 1)
                 /\ UNCHANGED <<invoked, pc>>
    /\ UNCHANGED <<request, runStack, failures, written, discoveryCalls, servers, mcpConfig,
                   returned, synthVars, walkVars, statsVars, rulesVars, lookupVars>>

\* The entry point is running and its next step is call.
AtStep(call) ==
    /\ invoked # "none" /\ returned = "none"
    /\ pc \in DOMAIN Steps(invoked)
    /\ Steps(invoked)[pc] = call

\* What the handler does with the text its entry point returned: the
\* CallTool handler wraps it with isError false, handleCli prints it.
ReplyWith(text) ==
    IF request.via = "protocol" THEN ToolReply(FALSE, text)
    ELSE CliReply(<<text>>, NoExit)

\* The configurations enhanceProject may find on disk.
ConfigsOnDisk == {EmptyConfig} \cup InitialConfigs

\* The entry point calls its configuration generator.
GenerateConfig ==
    /\ AtStep("generate")
    /\ \E world \in Worlds, existing \in ConfigsOnDisk :
          \E generated \in {CASE invoked = "analyze" -> AnalyzerGenerate(runStack, world)
                               [] invoked = "plan" -> PlannerGenerate(runStack, world)
                               [] invoked = "enhance" ->
                                     EnhancerGenerate(runStack, existing, world)} :
             /\ discoveryCalls' = discoveryCalls \o generated.calls
             /\ servers' = generated.discovered
             /\ mcpConfig' = generated.config
    /\ pc' = pc + 1
    /\ UNCHANGED <<request, invoked, runStack, failures, written, returned, reply,
                   synthVars, walkVars, statsVars, rulesVars, lookupVars>>

\* The file-system calls of step call that can succeed or fail:
\* generateStarterFiles makes none for a stack without starter files.
FsStep(call) ==
    /\ call # "generate"
    /\ AtStep(call)

\* The next file-system call of the entry point succeeds.
FsCallSucceeds ==
    \E call \in {"access", "readdir", "mkdir", "writeMcp", "mkdirRules", "writeRules",
                  "writeStarter"} :
        /\ FsStep(call)
        /\ written' = IF \/ call \in {"writeMcp", "writeRules"}
                         \/ call = "writeStarter" /\ HasStarterFiles(runStack)
                      THEN Append(written, FileWritten(call))
                      ELSE written
        /\ pc' = pc + 1
        /\ UNCHANGED <<request, invoked, runStack, failures, discoveryCalls, servers,
                       mcpConfig, returned, reply, synthVars, walkVars, statsVars,
                       rulesVars, lookupVars>>

\* The next file-system call of the entry point fails: an inner catch drops
\* the error and the entry point goes on, or the catch of the entry point
\* returns the error text.
FsCallFails ==
    \E call \in {"access", "readdir", "mkdir", "writeMcp", "mkdirRules", "writeRules",
                  "writeStarter"} :
        /\ FsStep(call)
        /\ call = "writeStarter" => HasStarterFiles(runStack)
        /\ failures' = failures \cup {call}
        /\ IF Handling(invoked, call) = "swallowed"
           THEN /\ pc' = pc + 1
                /\ UNCHANGED <<returned, reply>>
           ELSE /\ returned' = ErrorPrefix(invoked)
                /\ reply' = ReplyWith(ErrorPrefix(invoked))
                /\ UNCHANGED pc
        /\ UNCHANGED <<request, invoked, runStack, written, discoveryCalls, servers,
                       mcpConfig, synthVars, walkVars, statsVars, rulesVars, lookupVars>>

\* The entry point has taken its last step and returns its report.
EntryReturns ==
    /\ invoked # "none" /\ returned = "none"
    /\ pc = Len(Steps(invoked)) + 1
    /\ returned' = SuccessHeader(invoked)
    /\ reply' = ReplyWith(SuccessHeader(invoked))
    /\ UNCHANGED <<request, invoked, runStack, pc, failures, written, discoveryCalls,
                   servers, mcpConfig, synthVars, walkVars, statsVars, rulesVars,
                   lookupVars>>

RunInit ==
    /\ request \in Requests
    /\ runStack \in Stacks
    /\ invoked = "none"
    /\ pc = 0
    /\ failures = {}
    /\ written = <<>>
    /\ discoveryCalls = <<>>
    /\ servers = EmptyMap
    /\ mcpConfig = EmptyConfig
    /\ returned = "none"
    /\ reply = NoReply
    /\ SynthIdle /\ WalkIdle /\ StatsIdle /\ RulesIdle /\ LookupIdle

RunNext ==
    \/ CallTool
    \/ HandleCli
    \/ GenerateConfig
    \/ FsCallSucceeds
    \/ FsCallFails
    \/ EntryReturns

RunSpec == RunInit /\ [][RunNext]_vars

(***************************************************************************)
(* Claims about one invocation (RunSpec).                                  *)
(***************************************************************************)

\* The entry point has taken step call.
Past(call) == \E i \in 1..(pc - 1) : i \in DOMAIN Steps(invoked) /\ Steps(invoked)[i] = call

\* C23: generateMCPConfig of the analyze and plan paths calls discovery
\* exactly once, with the languages, then the frameworks, then the
\* lower-cased features of its stack, and returns a configuration whose
\* tool names are exactly those discovery returned, each entry holding the
\* descriptor's command, args and env, env being present if and only if
\* the descriptor has one.
C23_GenerateMCPConfigVerbatim ==
    invoked \in {"analyze", "plan"} =>
        IF ~Past("generate") THEN discoveryCalls = <<>>
        ELSE /\ discoveryCalls =
                   <<runStack.languages \o runStack.frameworks
                       \o [i \in 1..Len(runStack.features) |-> ToLower(runStack.features[i])]>>
             /\ DOMAIN mcpConfig.mcpServers = DOMAIN servers
             /\ \A n \in DOMAIN servers :
                   LET entry == mcpConfig.mcpServers[n]
                       info == servers[n]
                   IN /\ entry.command = info.installCommand
                      /\ entry.args = info.installArgs
                      /\ "env" \in DOMAIN entry <=> info.hasEnv
                      /\ info.hasEnv => entry.env = info.env

\* C23 witness: planProject returned its report for the React stack after
\* discovery returned brave-search, which has an env, and github, which has
\* none.
C23_Witness ==
    /\ invoked = "plan" /\ returned = SuccessHeader("plan")
    /\ runStack = ReactStack
    /\ discoveryCalls = <<<<"TypeScript", "React", "api">>>>
    /\ DOMAIN servers = {"brave-search", "github"}
    /\ "env" \in DOMAIN mcpConfig.mcpServers["brave-search"]
    /\ "env" \notin DOMAIN mcpConfig.mcpServers["github"]

\* The request lacks an argument its tool or command requires, or names no
\* known command.
LacksRequired ==
    \/ /\ request.via = "protocol"
       /\ request.name \in {"analyze_project", "plan_project", "enhance_project"}
       /\ \/ ~request.hasArgs
          \/ \E f \in Required(request.name) :
                f \notin DOMAIN request.args \/ request.args[f] # "string"
    \/ /\ request.via = "cli"
       /\ \/ request.command = "analyze" /\ Len(request.cmdArgs) < 1
          \/ request.command \in {"plan", "enhance"} /\ Len(request.cmdArgs) < 2
          \/ request.command \notin {"", "analyze", "plan", "enhance", "serve", "--help"}

\* C26: a request that lacks a required argument never invokes an entry
\* point and is rejected: the CallTool handler answers isError true with an
\* error text when a required field is missing or not a string, and the
\* command line prints the usage and exits with a non-zero status when a
\* required positional argument is missing or the command is unknown.
C26_InvalidRequestRejected ==
    LacksRequired =>
        /\ invoked = "none"
        /\ reply # NoReply =>
              IF request.via = "protocol"
              THEN /\ reply.isError
                   /\ reply.text \in {"Error: No arguments provided",
                                       "Error: Invalid arguments for " \o request.name
                                           \o " tool"}
              ELSE /\ reply.exit \notin {0, NoExit}
                   /\ reply.printed[Len(reply.printed)] = "usage"

\* C26 witness: a plan_project call whose projectPath is a number was
\* answered with isError true.
C26_Witness ==
    /\ request.via = "protocol" /\ request.name = "plan_project" /\ request.hasArgs
    /\ DOMAIN request.args = {"projectDescription", "projectPath"}
    /\ request.args["projectDescription"] = "string"
    /\ request.args["projectPath"] = "number"
    /\ reply # NoReply /\ reply.isError
    /\ invoked = "none"

\* The file named first is written before the one named second whenever
\* the second is written.
WrittenBefore(first, second) ==
    \A i \in DOMAIN written :
        written[i] = second => \E j \in 1..(i - 1) : written[j] = first

\* C29 as stated: analyzeProject and planProject return their success
\* report only after mcp.json and then project_rules.json were written, and
\* once any step after the write of mcp.json has failed, the creation of
\* the rules directory included, they return the error message and never
\* the success report.
C29_AnyLaterFailureIsError ==
    invoked \in {"analyze", "plan"} =>
        /\ returned = SuccessHeader(invoked) =>
              Len(written) >= 2 /\ written[1] = McpFile /\ written[2] = RulesFile
        /\ WrittenBefore(McpFile, RulesFile)
        /\ (failures \cap {"mkdirRules", "writeRules", "writeStarter"} # {}
            /\ returned # "none") => returned = ErrorPrefix(invoked)

\* C29, amended: analyzeProject and planProject return their success report
\* only after mcp.json and then project_rules.json were written; once the
\* write of project_rules.json or of a starter file has failed they return
\* the error message and never the success report, while a failure of
\* creating the rules directory is dropped and the call goes on.
C29_ReportAfterBothWrites ==
    invoked \in {"analyze", "plan"} =>
        /\ returned = SuccessHeader(invoked) =>
              Len(written) >= 2 /\ written[1] = McpFile /\ written[2] = RulesFile
        /\ WrittenBefore(McpFile, RulesFile)
        /\ failures \cap {"writeRules", "writeStarter"} # {} =>
              returned = ErrorPrefix(invoked)
        /\ (returned # "none" /\ failures \subseteq {"readdir", "mkdir", "mkdirRules"}) =>
              returned = SuccessHeader(invoked)

\* C29 witness: analyzeProject wrote mcp.json, could not create the rules
\* directory, failed to write project_rules.json and returned the error
\* message.
C29_Witness ==
    /\ invoked = "analyze"
    /\ failures = {"mkdirRules", "writeRules"}
    /\ written = <<McpFile>>
    /\ returned = ErrorPrefix("analyze")

(***************************************************************************)
(* The rule search of the discovery service (RulesSpec): searchCursorRules *)
(* asks the directory site once per technology, in order, and the model    *)
(* takes one step per request.                                             *)
(***************************************************************************)

\* Technology lists are drawn from these names, up to MaxTechs long.
MaxTechs == 2
RuleTechs == {"TypeScript", "React", "Python"}

TechLists == UNION {[1..n -> RuleTechs] : n \in 0..MaxTechs}

\* An optional field that is undefined.
Undefined == "undefined"

\* One '.rule-item, .package-item' element of a result page: the trimmed
\* texts of its name and description children.
Item(name, text) == [description |-> text, name |-> name]

\* What one request can produce: it throws, or answers with a page holding
\* these elements in document order.
Page(items) == [throws |-> FALSE, items |-> items]

RequestThrows == [throws |-> TRUE, items |-> <<>>]

SearchOutcomes ==
    {RequestThrows,
     Page(<<>>),
     Page(<<Item("", "Unnamed"), Item("hooks", "")>>),
     Page(<<Item("hooks", "Rules of hooks")>>),
     Page(<<Item("hooks", "Hook order"), Item("naming", "Naming")>>),
     Page(<<Item("naming", "Naming"), Item("naming", "Casing")>>),
     Page(<<Item("strict", "Strict mode"), Item("hooks", "Rules of hooks")>>)}

SemicolonPattern == "(?<![;{}])\\s*$"
SnakeCasePattern == "def\\s+([A-Z]|[a-z][a-z0-9]*[A-Z])"

\* The first entry of `entries` (pairs of key and value, in insertion
\* order) whose key occurs in the lower-cased technology name.
RECURSIVE FirstEntry(_, _)
FirstEntry(entries, normalizedTech) ==
    IF entries = <<>> THEN Undefined
    ELSE IF Contains(normalizedTech, entries[1][1]) THEN entries[1][2]
    ELSE FirstEntry(Tail(entries), normalizedTech)

GetDefaultPatternForTech(tech) ==
    FirstEntry(<<<<"javascript", SemicolonPattern>>,
                 <<"typescript", SemicolonPattern>>,
                 <<"python", SnakeCasePattern>>>>,
               ToLowerCase(tech))

GetScopeForTech(tech) ==
    FirstEntry(<<<<"javascript", "js,jsx">>, <<"typescript", "ts,tsx">>,
                 <<"react", "jsx,tsx">>, <<"python", "py">>,
                 <<"java", "java">>, <<"go", "go">>, <<"ruby", "rb">>,
                 <<"php", "php">>, <<"c#", "cs">>, <<"csharp", "cs">>>>,
               ToLowerCase(tech))

\* An MCPRuleInfo.
Rule(name, text, pattern, scope) ==
    [description |-> text, name |-> name,
     pattern |-> pattern, scope |-> scope, enabled |-> TRUE]

DescriptiveNames ==
    Rule("descriptive-names", "Use descriptive variable and function names",
         Undefined, Undefined)

\* Mutant of GetDefaultRules: only the language-specific rules.
GetDefaultRules_OnlySpecific(technologies) ==
    (IF \E i \in 1..Len(technologies) :
           \/ Contains(ToLowerCase(technologies[i]), "javascript")
           \/ Contains(ToLowerCase(technologies[i]), "typescript")
     THEN <<Rule("js-semicolons", "Use semicolons at the end of statements",
                 SemicolonPattern, "js,jsx,ts,tsx"),
            Rule("const-first",
                 "Prefer const over let when variable is not reassigned",
                 Undefined, Undefined)>>
     ELSE <<>>)
    \o
    (IF \E i \in 1..Len(technologies) :
           Contains(ToLowerCase(technologies[i]), "python")
     THEN <<Rule("py-snake-case", "Use snake_case for variables and functions",
                 SnakeCasePattern, "py")>>
     ELSE <<>>)

GetDefaultRules(technologies) ==
    <<DescriptiveNames>>
    \o
    (IF \E i \in 1..Len(technologies) :
           \/ Contains(ToLowerCase(technologies[i]), "javascript")
           \/ Contains(ToLowerCase(technologies[i]), "typescript")
     THEN <<Rule("js-semicolons", "Use semicolons at the end of statements",
                 SemicolonPattern, "js,jsx,ts,tsx"),
            Rule("const-first",
                 "Prefer const over let when variable is not reassigned",
                 Undefined, Undefined)>>
     ELSE <<>>)
    \o
    (IF \E i \in 1..Len(technologies) :
           Contains(ToLowerCase(technologies[i]), "python")
     THEN <<Rule("py-snake-case", "Use snake_case for variables and functions",
                 SnakeCasePattern, "py")>>
     ELSE <<>>)

\* rules.some(rule => rule.name === name)
HasRuleNamed(found, name) == \E i \in 1..Len(found) : found[i].name = name

\* Mutant of AddItem: the element is pushed without looking at the list.
AddItem_NoLookup(found, item, tech) ==
    IF item.name # "" /\ item.description # ""
    THEN Append(found, Rule(item.name, item.description,
                            GetDefaultPatternForTech(tech), GetScopeForTech(tech)))
    ELSE found

\* The body of the .each callback for one element of the page of `tech`.
AddItem(found, item, tech) ==
    IF item.name # "" /\ item.description # "" /\ ~HasRuleNamed(found, item.name)
    THEN Append(found, Rule(item.name, item.description,
                            GetDefaultPatternForTech(tech), GetScopeForTech(tech)))
    ELSE found

\* The .each loop over the elements of one page.
RECURSIVE AddItems(_, _, _)
AddItems(found, items, tech) ==
    IF items = <<>> THEN found
    ELSE AddItems(AddItem(found, items[1], tech), Tail(items), tech)

\* One iteration of the for loop: the request for the next technology
\* throws (caught, nothing added) or its page is read.
SearchTechnology ==
    /\ searchState = "searching"
    /\ position < Len(techs)
    /\ \E outcome \in SearchOutcomes :
          /\ pages' = Append(pages, outcome)
          /\ rules' = IF outcome.throws THEN rules
                      ELSE AddItems(rules, outcome.items, techs[position + 1])
    /\ position' = position + 1
    /\ UNCHANGED <<techs, searchState>>
    /\ UNCHANGED <<synthVars, walkVars, statsVars, runVars, lookupVars>>

\* After the loop: the default rules when nothing was found, else the list.
SearchReturns ==
    /\ searchState = "searching"
    /\ position = Len(techs)
    /\ rules' = IF Len(rules) = 0 THEN GetDefaultRules(techs) ELSE rules
    /\ searchState' = "returned"
    /\ UNCHANGED <<techs, position, pages>>
    /\ UNCHANGED <<synthVars, walkVars, statsVars, runVars, lookupVars>>

RulesInit ==
    /\ techs \in TechLists
    /\ position = 0
    /\ pages = <<>>
    /\ rules = <<>>
    /\ searchState = "searching"
    /\ SynthIdle /\ WalkIdle /\ StatsIdle /\ RunIdle /\ LookupIdle

RulesNext ==
    \/ SearchTechnology
    \/ SearchReturns

RulesSpec == RulesInit /\ [][RulesNext]_vars

(***************************************************************************)
(* Claims about the rule search (RulesSpec).                               *)
(***************************************************************************)

\* The elements of a page that the callback can turn into a rule.
Usable(outcome) ==
    {i \in 1..Len(outcome.items) :
        outcome.items[i].name # "" /\ outcome.items[i].description # ""}

\* C24: the rule search returns a non-empty list for every technology list,
\* the empty one included, and whenever every request failed or gave no
\* usable element the list is the default one, which starts with the generic
\* rule descriptive-names.
C24_DefaultRulesNeverEmpty ==
    searchState = "returned" =>
        /\ Len(rules) > 0
        /\ (\A i \in 1..Len(pages) : pages[i].throws \/ Usable(pages[i]) = {}) =>
              /\ rules = GetDefaultRules(techs)
              /\ rules[1] = DescriptiveNames

\* C24 witness: two technologies were searched, one request threw and the
\* other page held nothing usable, and the default list came back.
C24_Witness ==
    /\ searchState = "returned"
    /\ Len(techs) = 2
    /\ pages[1].throws
    /\ ~pages[2].throws /\ Len(pages[2].items) > 0 /\ Usable(pages[2]) = {}
    /\ rules[1] = DescriptiveNames

\* The first request, in technology order, whose page holds a usable element
\* named `name`, and the first such element on that page.
FirstRequest(name) ==
    CHOOSE i \in 1..Len(pages) :
        /\ \E k \in Usable(pages[i]) : pages[i].items[k].name = name
        /\ \A j \in 1..(i - 1) :
              \A k \in Usable(pages[j]) : pages[j].items[k].name # name

FirstElement(outcome, name) ==
    outcome.items[CHOOSE k \in Usable(outcome) :
                     /\ outcome.items[k].name = name
                     /\ \A m \in Usable(outcome) :
                           m < k => outcome.items[m].name # name]

\* C25: no two returned rules share a name, and a name found by several
\* requests keeps the rule built from the earliest technology that found it.
C25_NamesUniqueEarliestKept ==
    searchState = "returned" =>
        /\ \A i, j \in 1..Len(rules) : rules[i].name = rules[j].name => i = j
        /\ (\E i \in 1..Len(pages) : Usable(pages[i]) # {}) =>
              \A i \in 1..Len(rules) :
                 LET first == FirstRequest(rules[i].name)
                     element == FirstElement(pages[first], rules[i].name)
                 IN rules[i] = Rule(element.name, element.description,
                                    GetDefaultPatternForTech(techs[first]),
                                    GetScopeForTech(techs[first]))

\* C25 witness: both requests returned a rule named hooks with different
\* descriptions, for technologies of different scopes, and the list came back.
C25_Witness ==
    /\ searchState = "returned"
    /\ Len(techs) = 2 /\ GetScopeForTech(techs[1]) # GetScopeForTech(techs[2])
    /\ \E k \in Usable(pages[1]) : \E m \in Usable(pages[2]) :
          /\ pages[1].items[k].name = "hooks"
          /\ pages[2].items[m].name = "hooks"
          /\ pages[1].items[k].description # pages[2].items[m].description

(***************************************************************************)
(* The server discovery step by step (LookupSpec): discoverMCPServers      *)
(* lists the repository, starts one README request per server directory    *)
(* at once and waits for all of them; the requests complete in any order.  *)
(***************************************************************************)

\* The technology lists a discovery is asked about.
LookupTechLists == {Technologies(techStack) : techStack \in Stacks}

\* contents.data.filter(item => item.type === 'dir' && !item.name.startsWith('.'))
ServerDirsOf(world) ==
    {item.name : item \in {it \in world.items :
                              it.type = "dir" /\ ~StartsWithDot(it.name)}}

\* The listing request: it throws (the outer catch returns the fallback
\* servers), answers with something that is no array (empty result), or
\* answers with the entries, and then every README request is started.
ListRepository ==
    /\ discoverState = "listing"
    /\ IF service.listing = "throws"
       THEN /\ serverMap' = FallbackServers
            /\ discoverState' = "returned"
            /\ UNCHANGED pending
       ELSE IF service.listing = "notArray"
       THEN /\ discoverState' = "returned"
            /\ UNCHANGED <<serverMap, pending>>
       ELSE /\ pending' = ServerDirsOf(service)
            /\ discoverState' = "awaiting"
            /\ UNCHANGED serverMap
    /\ UNCHANGED <<service, lookupTechs, order>>
    /\ UNCHANGED <<synthVars, walkVars, statsVars, runVars, rulesVars>>

\* The README request of one directory completes and the rest of its
\* callback runs: servers[dir.name] is set when the server is relevant; a
\* request that throws is caught inside the callback.
ReadmeCompletes ==
    /\ discoverState = "awaiting"
    /\ \E dir \in pending :
          /\ serverMap' =
                IF IncludesServer(lookupTechs, dir, service.readme[dir])
                THEN [n \in DOMAIN serverMap \cup {dir} |->
                         IF n = dir THEN ServerInfo(dir) ELSE serverMap[n]]
                ELSE serverMap
          /\ pending' = pending \ {dir}
          /\ order' = Append(order, dir)
    /\ UNCHANGED <<service, lookupTechs, discoverState>>
    /\ UNCHANGED <<synthVars, walkVars, statsVars, runVars, rulesVars>>

\* Mutant of AllSettled: the wait ends with the first completed callback.
AllSettled_AnySettled(outstanding, completed) == Len(completed) > 0

\* await Promise.all(...): every callback has run to its end.
AllSettled(outstanding, completed) == outstanding = {}

\* return servers
DiscoverReturns ==
    /\ discoverState = "awaiting"
    /\ AllSettled(pending, order)
    /\ discoverState' = "returned"
    /\ UNCHANGED <<service, lookupTechs, pending, order, serverMap>>
    /\ UNCHANGED <<synthVars, walkVars, statsVars, runVars, rulesVars>>

LookupInit ==
    /\ service \in Worlds
    /\ lookupTechs \in LookupTechLists
    /\ pending = {}
    /\ order = <<>>
    /\ serverMap = EmptyMap
    /\ discoverState = "listing"
    /\ SynthIdle /\ WalkIdle /\ StatsIdle /\ RunIdle /\ RulesIdle

LookupNext ==
    \/ ListRepository
    \/ ReadmeCompletes
    \/ DiscoverReturns

LookupSpec == LookupInit /\ [][LookupNext]_vars

(***************************************************************************)
(* Claims about the server discovery (LookupSpec).                         *)
(***************************************************************************)

\* C28: the README requests of discoverMCPServers are all outstanding at
\* once and complete in any order; the function returns only when every one
\* of them has completed, and the returned mapping has exactly the listed
\* servers whose own request did not fail and whose own README makes them
\* relevant, each with its own entry, whatever the completion order was.
C28_ResultIndependentOfOrder ==
    /\ discoverState = "awaiting" =>
          pending \cup {order[i] : i \in 1..Len(order)} = ServerDirsOf(service)
    /\ (discoverState = "returned" /\ service.listing = "ok") =>
          /\ pending = {}
          /\ {order[i] : i \in 1..Len(order)} = ServerDirsOf(service)
          /\ DOMAIN serverMap =
                {dir \in ServerDirsOf(service) :
                    IncludesServer(lookupTechs, dir, service.readme[dir])}
          /\ \A dir \in DOMAIN serverMap : serverMap[dir] = ServerInfo(dir)
          /\ serverMap = DiscoverMCPServers(lookupTechs, service)

\* C28 witness: two requests were outstanding, the one for github completed
\* first by failing, the one for brave-search completed after it, and the
\* function returned brave-search alone.
C28_Witness ==
    /\ discoverState = "returned"
    /\ order = <<"github", "brave-search">>
    /\ service.readme["github"].throws
    /\ DOMAIN serverMap = {"brave-search"}

====
